---- MODULE Spec2Model ----
(***************************************************************************)
(* A model of the block-to-JavaScript compiler of PenguinMod-Vm            *)
(* (src/src/compiler/jsgen.js): the typed-value classes TypedInput,        *)
(* ConstantInput and VariableInput, and the JSGenerator that lowers an     *)
(* intermediate script to JavaScript source.                               *)
(*                                                                         *)
(* Emitted JavaScript is a sequence of tokens (strings); a token is a      *)
(* piece of text that the generator appends as a unit.                     *)
(***************************************************************************)
EXTENDS Integers, Sequences, FiniteSets, TLC

(***************************************************************************)
(* Bounds of the model.                                                    *)
(***************************************************************************)
\* longest string literal of a constant, in characters
MaxLitLen == 3

(***************************************************************************)
(* Type tags (jsgen.js 26-30).                                             *)
(***************************************************************************)
TYPE_NUMBER == 1
TYPE_STRING == 2
TYPE_BOOLEAN == 3
TYPE_UNKNOWN == 4
TYPE_NUMBER_NAN == 5
Types == {TYPE_NUMBER, TYPE_STRING, TYPE_BOOLEAN, TYPE_UNKNOWN, TYPE_NUMBER_NAN}

(***************************************************************************)
(* JavaScript values of constants.  A number is finite (an integer here),  *)
(* NaN, +Infinity, -Infinity or negative zero; a string is a sequence of   *)
(* characters.  "Infinity" stands for the eight characters of that word.   *)
(***************************************************************************)
Fin(n) == [k |-> "fin", v |-> n]
NaN == [k |-> "nan", v |-> 0]
PosInf == [k |-> "inf", v |-> 0]
NegInf == [k |-> "ninf", v |-> 0]
NegZero == [k |-> "negzero", v |-> 0]

Str(chars) == [t |-> "string", chars |-> chars, num |-> NaN]
Num(n) == [t |-> "number", chars |-> <<>>, num |-> n]

DigitTok == <<"0", "1", "2", "3", "4", "5", "6", "7", "8", "9">>
IsDigit(c) == \E i \in 1..10 : DigitTok[i] = c
DigitVal(c) == CHOOSE i \in 0..9 : DigitTok[i + 1] = c
IsSpace(c) == c = " "

RECURSIVE TrimLeft(_)
TrimLeft(s) == IF s # <<>> /\ IsSpace(Head(s)) THEN TrimLeft(Tail(s)) ELSE s

RECURSIVE TrimRight(_)
TrimRight(s) ==
    IF s # <<>> /\ IsSpace(s[Len(s)]) THEN TrimRight(SubSeq(s, 1, Len(s) - 1)) ELSE s

\* String.prototype.trim
Trim(s) == TrimRight(TrimLeft(s))

RECURSIVE DigitsValue(_)
DigitsValue(s) ==
    IF s = <<>> THEN 0 ELSE 10 * DigitsValue(SubSeq(s, 1, Len(s) - 1)) + DigitVal(s[Len(s)])

\* ToNumber of a string (the unary + of JavaScript): white space is trimmed, the
\* empty string is 0, then an optional sign and decimal digits or Infinity.
StringToNumber(s) ==
    LET t == Trim(s)
        signed == t # <<>> /\ Head(t) \in {"-", "+"}
        neg == t # <<>> /\ Head(t) = "-"
        body == IF signed THEN Tail(t) ELSE t
    IN  IF t = <<>> THEN Fin(0)
        ELSE IF body = <<"Infinity">> THEN (IF neg THEN NegInf ELSE PosInf)
        ELSE IF body # <<>> /\ \A i \in 1..Len(body) : IsDigit(body[i])
             THEN LET n == DigitsValue(body)
                  IN  IF neg THEN (IF n = 0 THEN NegZero ELSE Fin(0 - n)) ELSE Fin(n)
        ELSE NaN

\* +this.constantValue
ToNumber(cv) == IF cv.t = "number" THEN cv.num ELSE StringToNumber(cv.chars)

RECURSIVE DigitsOf(_)
DigitsOf(n) ==
    IF n < 10 THEN <<DigitTok[n + 1]>> ELSE DigitsOf(n \div 10) \o <<DigitTok[(n % 10) + 1]>>

\* Number.prototype.toString
NumberToString(n) ==
    CASE n.k = "nan" -> <<"NaN">>
      [] n.k = "inf" -> <<"Infinity">>
      [] n.k = "ninf" -> <<"-", "Infinity">>
      [] n.k = "negzero" -> <<"0">>
      [] OTHER -> IF n.v < 0 THEN <<"-">> \o DigitsOf(0 - n.v) ELSE DigitsOf(n.v)

\* '' + this.constantValue, this.constantValue.toString()
ValueToString(cv) == IF cv.t = "number" THEN NumberToString(cv.num) ELSE cv.chars

\* a number is falsy when it is 0, -0 or NaN
Truthy(n) == ~(n.k \in {"nan", "negzero"} \/ (n.k = "fin" /\ n.v = 0))
\* value === 0 (true of -0 as well)
IsZero(n) == n.k = "negzero" \/ (n.k = "fin" /\ n.v = 0)

\* JSON.stringify(string).slice(1, -1): the quote and the backslash are escaped
sanitize(s) ==
    [i \in 1..Len(s) |->
        IF s[i] = "\"" THEN "\\\"" ELSE IF s[i] = "\\" THEN "\\\\" ELSE s[i]]

(***************************************************************************)
(* Inputs (typed values).                                                  *)
(***************************************************************************)
\* null, as the value of a VariableInput never set and as the input a failed transformer
\* leaves; undefined, as the value of a function that ends without a return
NullInput == [k |-> "null"]
NoValue == NullInput
Undefined == [k |-> "undefined"]
Falsy(v) == v.k \in {"null", "undefined"}
TypedInput(source, type) == [k |-> "typed", source |-> source, type |-> type]
ConstantInput(constantValue, safe) ==
    [k |-> "const", constantValue |-> constantValue, safe |-> safe]
\* a VariableInput; born tells the objects created for one variable apart
VariableInput(source, id, born) ==
    [k |-> "var", source |-> source, type |-> TYPE_UNKNOWN, value |-> NoValue,
     id |-> id, born |-> born]

\* ConstantInput.asNumber
ConstAsNumber(in) ==
    LET numberValue == ToNumber(in.constantValue)
    IN  IF Truthy(numberValue) THEN NumberToString(numberValue)
        ELSE IF numberValue.k = "negzero" THEN <<"-", "0">>
        ELSE <<"0">>

\* ConstantInput.asString
ConstAsString(in) == <<"\"">> \o sanitize(ValueToString(in.constantValue)) \o <<"\"">>

\* ConstantInput.asUnknown
ConstAsUnknown(in) ==
    IF in.constantValue.t = "number" THEN NumberToString(in.constantValue.num)
    ELSE IF NumberToString(ToNumber(in.constantValue)) = in.constantValue.chars
         THEN in.constantValue.chars
    ELSE ConstAsString(in)

\* Cast.toBoolean of a constant, printed
ConstAsBoolean(in) ==
    LET cv == in.constantValue
    IN  IF cv.t = "number" THEN (IF Truthy(cv.num) THEN <<"true">> ELSE <<"false">>)
        ELSE IF cv.chars \in {<<>>, <<"0">>} THEN <<"false">> ELSE <<"true">>

\* TypedInput.asNumber, VariableInput.asNumber
SourceAsNumber(in) ==
    IF in.type = TYPE_NUMBER THEN in.source
    ELSE IF in.type = TYPE_NUMBER_NAN THEN <<"(">> \o in.source \o <<" || 0)">>
    ELSE <<"(+">> \o in.source \o <<" || 0)">>

\* TypedInput.asNumberOrNaN, VariableInput.asNumberOrNaN
SourceAsNumberOrNaN(in) ==
    IF in.type \in {TYPE_NUMBER, TYPE_NUMBER_NAN} THEN in.source
    ELSE <<"(+">> \o in.source \o <<")">>

\* TypedInput.asString, VariableInput.asString
SourceAsString(in) ==
    IF in.type = TYPE_STRING THEN in.source ELSE <<"(\"\" + ">> \o in.source \o <<")">>

\* TypedInput.asBoolean, VariableInput.asBoolean
SourceAsBoolean(in) ==
    IF in.type = TYPE_BOOLEAN THEN in.source ELSE <<"toBoolean(">> \o in.source \o <<")">>

asNumber(in) == IF in.k = "const" THEN ConstAsNumber(in) ELSE SourceAsNumber(in)
asNumberOrNaN(in) == IF in.k = "const" THEN ConstAsNumber(in) ELSE SourceAsNumberOrNaN(in)
asString(in) == IF in.k = "const" THEN ConstAsString(in) ELSE SourceAsString(in)
asBoolean(in) == IF in.k = "const" THEN ConstAsBoolean(in) ELSE SourceAsBoolean(in)
asUnknown(in) == IF in.k = "const" THEN ConstAsUnknown(in) ELSE in.source
asSafe(in) ==
    IF in.k = "const" THEN (IF in.safe THEN ConstAsUnknown(in) ELSE ConstAsString(in))
    ELSE in.source

\* ConstantInput.isAlwaysNumber with the test for a textual form left out
ConstIsAlwaysNumberNoBlankTest(in) == ToNumber(in.constantValue).k # "nan"

\* ConstantInput.isAlwaysNumber
ConstIsAlwaysNumber(in) ==
    LET value == ToNumber(in.constantValue)
    IN  IF value.k = "nan" THEN FALSE
        ELSE IF IsZero(value) THEN Trim(ValueToString(in.constantValue)) # <<>>
        ELSE TRUE

\* ConstantInput.isNeverNumber
ConstIsNeverNumber(in) == ToNumber(in.constantValue).k = "nan"

\* the predicates of a TypedInput or ConstantInput
DirectIsAlwaysNumber(in) ==
    IF in.k = "const" THEN ConstIsAlwaysNumber(in) ELSE in.type = TYPE_NUMBER
DirectIsAlwaysNumberOrNaN(in) ==
    IF in.k = "const" THEN ConstIsAlwaysNumber(in)
    ELSE in.type \in {TYPE_NUMBER, TYPE_NUMBER_NAN}
DirectIsNeverNumber(in) == IF in.k = "const" THEN ConstIsNeverNumber(in) ELSE FALSE

\* The predicates of any input; a VariableInput delegates to the value it was set to.
\* Delegations counts the calls passed on before an answer is given.
RECURSIVE isAlwaysNumber(_)
isAlwaysNumber(in) ==
    IF in.k = "var"
    THEN (IF ~Falsy(in.value) THEN isAlwaysNumber(in.value) ELSE FALSE)
    ELSE DirectIsAlwaysNumber(in)

RECURSIVE isAlwaysNumberOrNaN(_)
isAlwaysNumberOrNaN(in) ==
    IF in.k = "var"
    THEN (IF ~Falsy(in.value) THEN isAlwaysNumberOrNaN(in.value) ELSE FALSE)
    ELSE DirectIsAlwaysNumberOrNaN(in)

RECURSIVE isNeverNumber(_)
isNeverNumber(in) ==
    IF in.k = "var"
    THEN (IF ~Falsy(in.value) THEN isNeverNumber(in.value) ELSE FALSE)
    ELSE DirectIsNeverNumber(in)

RECURSIVE Delegations(_)
Delegations(in) ==
    IF in.k = "var" /\ ~Falsy(in.value) THEN 1 + Delegations(in.value) ELSE 0

\* VariableInput.setInput that keeps the variable it is given
setInputAliasing(self, input) ==
    [self EXCEPT !.value = input,
                 !.type = IF input.k = "typed" THEN input.type ELSE TYPE_UNKNOWN]

\* VariableInput.setInput: the variable after the call.  A VariableInput argument is
\* given with the value it holds when the call is made.
setInput(self, input) ==
    IF input.k = "var" /\ Falsy(input.value)
    THEN [self EXCEPT !.type = TYPE_UNKNOWN, !.value = NoValue]
    ELSE LET in == IF input.k = "var" THEN input.value ELSE input
         IN  [self EXCEPT !.value = in,
                          !.type = IF in.k = "typed" THEN in.type ELSE TYPE_UNKNOWN]

\* isSafeConstantForEqualsOptimization without the test that leaves 0 out
isSafeConstantAllowingZero(input) ==
    NumberToString(ToNumber(input.constantValue)) = ValueToString(input.constantValue)

\* isSafeConstantForEqualsOptimization
isSafeConstantForEqualsOptimization(input) ==
    LET numberValue == ToNumber(input.constantValue)
    IN  IF ~Truthy(numberValue) THEN FALSE
        ELSE NumberToString(numberValue) = ValueToString(input.constantValue)

\* the three comparisons op.equals can emit
EqualsAsStrings(left, right) ==
    TypedInput(<<"(">> \o asString(left) \o <<".toLowerCase() === ">>
               \o asString(right) \o <<".toLowerCase())">>, TYPE_BOOLEAN)
EqualsAsNumbers(left, right) ==
    TypedInput(<<"(">> \o asNumber(left) \o <<" === ">> \o asNumber(right) \o <<")">>,
               TYPE_BOOLEAN)
EqualsByHelper(left, right) ==
    TypedInput(<<"compareEqual(">> \o asUnknown(left) \o <<", ">> \o asUnknown(right)
               \o <<")">>, TYPE_BOOLEAN)

\* op.equals that takes a constant for a number only if its text round-trips
opEqualsRoundTrip(left, right) ==
    LET strict(in) == isAlwaysNumber(in)
                      /\ (in.k = "const" => NumberToString(ToNumber(in.constantValue))
                                            = ValueToString(in.constantValue))
    IN  IF isNeverNumber(left) \/ isNeverNumber(right) \/ ~strict(left) \/ ~strict(right)
        THEN EqualsAsStrings(left, right)
        ELSE EqualsAsNumbers(left, right)

\* descendInput, case op.equals, once both operands are lowered
opEquals(left, right) ==
    LET leftAlwaysNumber == isAlwaysNumber(left)
        rightAlwaysNumber == isAlwaysNumber(right)
    IN  IF isNeverNumber(left) \/ isNeverNumber(right) THEN EqualsAsStrings(left, right)
        ELSE IF leftAlwaysNumber /\ rightAlwaysNumber THEN EqualsAsNumbers(left, right)
        ELSE IF leftAlwaysNumber /\ left.k = "const"
                /\ isSafeConstantForEqualsOptimization(left)
             THEN EqualsAsNumbers(left, right)
        ELSE IF rightAlwaysNumber /\ right.k = "const"
                /\ isSafeConstantForEqualsOptimization(right)
             THEN EqualsAsNumbers(left, right)
        ELSE EqualsByHelper(left, right)


(***************************************************************************)
(* Nodes of the intermediate representation.  Every node is a record of    *)
(* the same shape: its kind, its input nodes in the order in which the     *)
(* generator descends them, its statement lists, and for the kinds that    *)
(* have them a constant value, a name (variable id, procedure variant,     *)
(* behaviour of an extension's transformer) and a flag.                    *)
(***************************************************************************)
Node(kind, ins, stks, value, name, flag) ==
    [kind |-> kind, ins |-> ins, stks |-> stks, value |-> value, name |-> name,
     flag |-> flag]
Leaf(kind) == Node(kind, <<>>, <<>>, Num(Fin(0)), "", FALSE)
Unary(kind, a) == Node(kind, <<a>>, <<>>, Num(Fin(0)), "", FALSE)
Binary(kind, a, b) == Node(kind, <<a, b>>, <<>>, Num(Fin(0)), "", FALSE)

Constant(cv) == Node("constant", <<>>, <<>>, cv, "", FALSE)
VarGet(id) == Node("var.get", <<>>, <<>>, Num(Fin(0)), id, FALSE)
ProceduresCall(variant, args) ==
    Node("procedures.call", args, <<>>, Num(Fin(0)), variant, FALSE)
InlineStackOutput(code) ==
    Node("control.inlineStackOutput", <<>>, <<code>>, Num(Fin(0)), "", FALSE)
Compat(ins, stks) == Node("compat", ins, stks, Num(Fin(0)), "", FALSE)
\* a node of the registered extension; behaviour is "ok" or "throw"
Extension(behaviour, ins, stks) ==
    Node("ext.block", ins, stks, Num(Fin(0)), behaviour, FALSE)
\* a node whose kind no case and no extension handles
Bogus == Leaf("bogus.block")
ControlIf(condition, whenTrue, whenFalse) ==
    Node("control.if", <<condition>>, <<whenTrue, whenFalse>>, Num(Fin(0)), "", FALSE)
ControlRepeat(times, do) ==
    Node("control.repeat", <<times>>, <<do>>, Num(Fin(0)), "", FALSE)
ControlWhile(condition, do, warpTimer) ==
    Node("control.while", <<condition>>, <<do>>, Num(Fin(0)), "", warpTimer)
ControlRunAsSprite(sprite, substack) ==
    Node("control.runAsSprite", <<sprite>>, <<substack>>, Num(Fin(0)), "", FALSE)
ControlWaitOrUntil(seconds, condition) ==
    Node("control.waitOrUntil", <<condition, seconds>>, <<>>, Num(Fin(0)), "", FALSE)
ControlFor(variable, count, do) ==
    Node("control.for", <<count>>, <<do>>, Num(Fin(0)), variable, FALSE)
ControlAllAtOnce(code) ==
    Node("control.allAtOnce", <<>>, <<code>>, Num(Fin(0)), "", FALSE)
VarSet(id, v) == Node("var.set", <<v>>, <<>>, Num(Fin(0)), id, FALSE)

\* the kinds the extension registry holds a transformer for (JSGenerator._extensionJSInfo)
RegisteredKinds == {"ext.block"}
hasExtensionJs(node) == node.kind \in RegisteredKinds

\* the variables of the project: id and scope
VariableScope(id) == IF id = "v1" THEN "target" ELSE "stage"

\* getNamesOfCostumesAndSounds(target.runtime): the project has one costume, named abc
namesOfCostumesAndSounds == {<<"a", "b", "c">>}

\* ir.procedures: the procedures of the project, by variant.  "self" is the
\* procedure a procedure script compiles; "empty" has no stack.
Procedures(scr) ==
    [self |-> [stack |-> TRUE, yields |-> scr.isProcedure /\ scr.yields, arguments |-> 0],
     yproc |-> [stack |-> TRUE, yields |-> TRUE, arguments |-> 1],
     plain |-> [stack |-> TRUE, yields |-> FALSE, arguments |-> 1],
     empty |-> [stack |-> FALSE, yields |-> FALSE, arguments |-> 0]]

(***************************************************************************)
(* The state of one compilation.                                           *)
(***************************************************************************)
VARIABLES
    script,              \* the IntermediateScript being compiled
    source,              \* this.source
    variableInputs,      \* this.variableInputs: variable id -> VariableInput
    frames,              \* this.frames
    currentFrame,        \* this.currentFrame, as an index of frames (0: none)
    isWarp,              \* this.isWarp
    descendedIntoModulo, \* this.descendedIntoModulo
    localVariables,      \* counter of the pool this.localVariables
    setupVariables,      \* this._setupVariables: the keys and their values, in insertion order
    setupVariablesPool,  \* counter of the pool this._setupVariablesPool
    nextBorn,            \* number of VariableInput objects created
    ctl,                 \* the call stack of the generator: one record per active call
    ret,                 \* the value the last finished descendInput returned
    status,              \* "running", "done" (compile returned) or "thrown"
    error,               \* the last error thrown
    factory,             \* the text createScriptFactory assembled
    events,              \* what the last step did
    obs,                 \* what the last step observed of its statement
    seen,                \* what has happened so far in this compilation
    run                  \* a thread running the compiled script

VARIABLES
    tLeft, tRight,       \* two typed values
    tOut,                \* the result of the operation applied to them
    vheap,               \* VariableInput objects, by name
    vquery               \* the last predicate evaluated on one of them

VARIABLES
    runtime,             \* the runtime the interpolator is given: its targets and renderer
    calls                \* the calls the last function of the interpolator made

compilerVars ==
    <<script, source, variableInputs, frames, currentFrame, isWarp, descendedIntoModulo,
      localVariables, setupVariables, setupVariablesPool, nextBorn, ctl, ret, status,
      error, factory, events, obs, seen, run>>
typedVars == <<tLeft, tRight, tOut>>
heapVars == <<vheap, vquery>>
interpVars == <<runtime, calls>>
vars == <<compilerVars, typedVars, heapVars, interpVars>>


\* no runtime is at hand
NoRuntime == [targets |-> <<>>, renderer |-> NullInput, moves |-> 0]
NoCalls == [by |-> "", made |-> <<>>, threw |-> FALSE]

(***************************************************************************)
(* A step of the generator is written as a function from the state at its  *)
(* start to the state at its end, both records of the variables.  Field x  *)
(* holds an exception in flight: the operations below do nothing once it   *)
(* is set, as the statements after a throw are never run.                  *)
(***************************************************************************)
NoObs == [kind |-> "none"]
Cur ==
    [source |-> source, variableInputs |-> variableInputs, frames |-> frames,
     currentFrame |-> currentFrame, isWarp |-> isWarp,
     descendedIntoModulo |-> descendedIntoModulo, localVariables |-> localVariables,
     setupVariables |-> setupVariables, setupVariablesPool |-> setupVariablesPool,
     nextBorn |-> nextBorn, ctl |-> ctl, ret |-> ret,
     status |-> status, error |-> error, factory |-> factory, events |-> {},
     obs |-> NoObs, seen |-> seen, x |-> ""]

Ok(s) == s.x = ""
throw(s, e) == IF Ok(s) THEN [s EXCEPT !.x = e] ELSE s
\* this.source += toks
emit(s, toks) == IF Ok(s) THEN [s EXCEPT !.source = @ \o toks] ELSE s
\* this.source = toks
setSource(s, toks) == IF Ok(s) THEN [s EXCEPT !.source = toks] ELSE s
note(s, ev) == IF Ok(s) THEN [s EXCEPT !.events = @ \cup {ev}] ELSE s
remember(s, what) == IF Ok(s) THEN [s EXCEPT !.seen = @ \cup {what}] ELSE s
observe(s, o) == IF Ok(s) THEN [s EXCEPT !.obs = o] ELSE s
\* a method is called on v: a TypeError when v is null or undefined
deref(s, v) ==
    IF Falsy(v)
    THEN throw(s, "TypeError: cannot read properties of " \o v.k)
    ELSE s
BoolTok(b) == IF b THEN "true" ELSE "false"

\* the call stack
Cont(op, node) ==
    [op |-> op, node |-> node, pc |-> 0, i |-> 0, src0 |-> <<>>, frag |-> <<>>,
     vals |-> <<>>, fi |-> 0, flag |-> FALSE, sawMod |-> FALSE,
     before |-> [frames |-> <<>>, currentFrame |-> 0]]
InputCall(node) == Cont("input", node)
StmtCall(node) == Cont("stmt", node)
StackCall(nodes, isLoop) ==
    Cont("stack", Node("stack", <<>>, <<nodes>>, Num(Fin(0)), "", isLoop))
top(s) == s.ctl[Len(s.ctl)]
setTop(s, c) == IF Ok(s) THEN [s EXCEPT !.ctl[Len(s.ctl)] = c] ELSE s
\* a call is made: before holds the frames the callee finds
call(s, c) ==
    IF Ok(s)
    THEN [s EXCEPT !.ctl = Append(@, [c EXCEPT !.before = [frames |-> s.frames,
                                                             currentFrame |-> s.currentFrame]])]
    ELSE s
\* descendInput or descendStackedBlock returns with other frames than it found
framesChanged(s) ==
    LET c == s.ctl[Len(s.ctl)]
    IN  /\ c.op \in {"input", "stmt"}
        /\ Len(s.frames) # Len(c.before.frames) \/ s.currentFrame # c.before.currentFrame
\* the call on top returns
pop(s) ==
    IF Ok(s)
    THEN [s EXCEPT !.ctl = SubSeq(@, 1, Len(@) - 1),
                   !.seen = IF framesChanged(s) THEN @ \cup {"framesChanged"} ELSE @]
    ELSE s
\* descendInput returns v; a case of the switch that returns no input is remembered
return(s, v) ==
    IF Ok(s)
    THEN [pop(s) EXCEPT !.ret = v,
                        !.seen = IF Falsy(v) /\ ~hasExtensionJs(s.ctl[Len(s.ctl)].node)
                                 THEN @ \cup {"returnedNoInput"} ELSE @]
    ELSE s

\* VariablePool.next: prefix and counter, the counter as a base-36 numeral
Digit36 ==
    <<"0", "1", "2", "3", "4", "5", "6", "7", "8", "9", "a", "b", "c", "d", "e", "f", "g",
      "h", "i", "j", "k", "l", "m", "n", "o", "p", "q", "r", "s", "t", "u", "v", "w", "x",
      "y", "z">>
RECURSIVE Base36(_)
Base36(n) ==
    IF n < 36 THEN <<Digit36[n + 1]>> ELSE Base36(n \div 36) \o <<Digit36[(n % 36) + 1]>>
PoolName(prefix, n) == <<prefix>> \o Base36(n)

\* this.localVariables.next(): the name, and the state after it
localName(s) == PoolName("a", s.localVariables)
localNext(s) == IF Ok(s) THEN [s EXCEPT !.localVariables = @ + 1] ELSE s

\* resetVariableInputs
resetVariableInputs(s) == IF Ok(s) THEN [s EXCEPT !.variableInputs = <<>>] ELSE s

\* pushFrame(new Frame(isLoop))
pushFrame(s, isLoop) ==
    IF Ok(s)
    THEN [s EXCEPT !.frames = Append(@, [isLoop |-> isLoop, isLastBlock |-> FALSE]),
                   !.currentFrame = Len(s.frames) + 1]
    ELSE s

\* popFrame
popFrame(s) ==
    IF Ok(s)
    THEN LET fs == IF s.frames = <<>> THEN <<>> ELSE SubSeq(s.frames, 1, Len(s.frames) - 1)
         IN  [s EXCEPT !.frames = fs, !.currentFrame = Len(fs)]
    ELSE s

\* isLastBlockInLoop that asks for the loop before it asks for the last block
RECURSIVE isLastBlockInLoopLoopFirst(_)
isLastBlockInLoopLoopFirst(fs) ==
    IF fs = <<>> THEN FALSE
    ELSE IF fs[Len(fs)].isLoop THEN TRUE
    ELSE IF ~fs[Len(fs)].isLastBlock THEN FALSE
    ELSE isLastBlockInLoopLoopFirst(SubSeq(fs, 1, Len(fs) - 1))

\* isLastBlockInLoop that answers with the kind of the first frame that is not a last block
isLastBlockInLoopFirstNotLast(fs) ==
    /\ \E j \in 1..Len(fs) : ~fs[j].isLastBlock
    /\ fs[CHOOSE j \in 1..Len(fs) :
              ~fs[j].isLastBlock /\ \A k \in (j + 1)..Len(fs) : fs[k].isLastBlock].isLoop

\* isLastBlockInLoop: the frames are scanned from the most recent one
RECURSIVE isLastBlockInLoop(_)
isLastBlockInLoop(fs) ==
    IF fs = <<>> THEN FALSE
    ELSE IF ~fs[Len(fs)].isLastBlock THEN FALSE
    ELSE IF fs[Len(fs)].isLoop THEN TRUE
    ELSE isLastBlockInLoop(SubSeq(fs, 1, Len(fs) - 1))

\* evaluateOnce: the state after the call, and the name returned
\* evaluateOnce that takes a name from the pool whether or not the key is there
evaluateOnceAlways(s, src) ==
    IF ~Ok(s) THEN s
    ELSE [s EXCEPT !.setupVariables =
                       Append(@, [source |-> src, name |-> PoolName("b", s.setupVariablesPool)]),
                   !.setupVariablesPool = @ + 1]
evaluateOnceState(s, src) ==
    IF ~Ok(s) \/ \E i \in 1..Len(s.setupVariables) : s.setupVariables[i].source = src THEN s
    ELSE [s EXCEPT !.setupVariables =
                       Append(@, [source |-> src, name |-> PoolName("b", s.setupVariablesPool)]),
                   !.setupVariablesPool = @ + 1]
evaluateOnceName(s, src) ==
    LET sv == evaluateOnceState(s, src).setupVariables
    IN  sv[CHOOSE i \in 1..Len(sv) : sv[i].source = src].name

\* referenceVariable: the source looked up once, per scope
referenceSource(id) ==
    IF VariableScope(id) = "target" THEN <<"target.variables[\"", id, "\"]">>
    ELSE <<"stage.variables[\"", id, "\"]">>

\* descendVariable: the state after the call, and the VariableInput returned
descendVariableState(s, id) ==
    IF ~Ok(s) \/ id \in DOMAIN s.variableInputs THEN s
    ELSE LET s1 == evaluateOnceState(s, referenceSource(id))
             input == VariableInput(evaluateOnceName(s, referenceSource(id))
                                    \o <<".value">>, id, s.nextBorn)
         IN  [s1 EXCEPT !.variableInputs = (id :> input) @@ s.variableInputs,
                        !.nextBorn = @ + 1]
descendVariableInput(s, id) == descendVariableState(s, id).variableInputs[id]

\* safeConstantInput
safeConstantInput(value) ==
    ConstantInput(value, ~(value.t = "string" /\ value.chars \in namesOfCostumesAndSounds))

\* yielded
yielded(s) ==
    IF ~script.yields
    THEN throw(remember(s, "yieldMismatch"), "Script yielded but is not marked as yielding.")
    ELSE resetVariableInputs(s)

\* yieldNotWarp that yields in warp mode as well
yieldAlways(s) == IF Ok(s) THEN yielded(note(emit(s, <<"yield;\n">>), "yield")) ELSE s

\* yieldNotWarp
yieldNotWarp(s) ==
    IF Ok(s) /\ ~s.isWarp THEN yielded(note(emit(s, <<"yield;\n">>), "yield")) ELSE s

\* yieldStuckOrNotWarp
yieldStuckOrNotWarp(s) ==
    IF ~Ok(s) THEN s
    ELSE IF s.isWarp THEN yielded(note(emit(s, <<"if (isStuck()) yield;\n">>), "yield"))
    ELSE yielded(note(emit(s, <<"yield;\n">>), "yield"))

\* yieldLoop that takes every script to have a warp timer
yieldLoopStuck(s) == yieldStuckOrNotWarp(s)

\* yieldLoop
yieldLoop(s) == IF script.warpTimer THEN yieldStuckOrNotWarp(s) ELSE yieldNotWarp(s)

\* retire
retire(s) ==
    IF script.isProcedure THEN note(emit(s, <<"retire(); yield;\n">>), "yield")
    ELSE emit(s, <<"retire(); return;\n">>)

\* requestRedraw
requestRedraw(s) == emit(s, <<"runtime.requestRedraw();\n">>)

\* the tokens that hold a yield or a yield*
YieldTokens ==
    {"yield;\n", "if (isStuck()) yield;\n", "retire(); yield;\n", "yield* ",
     "yield* executeInCompatibilityLayer(", "yield* executeInCompatibilityLayer({",
     "(yield* (function*() {", "yield* waitThreads(startHats("}
HasYield(toks) == \E i \in 1..Len(toks) : toks[i] \in YieldTokens

(***************************************************************************)
(* An exception unwinds the call stack to the innermost extension hook     *)
(* whose transformer is running (its try block), or out of compile().      *)
(***************************************************************************)
CatchIndex(c) ==
    LET js == {j \in 1..Len(c) : c[j].op \in {"input", "stmt"} /\ hasExtensionJs(c[j].node)
                                 /\ c[j].pc = 1}
    IN  IF js = {} THEN 0 ELSE CHOOSE j \in js : \A m \in js : m <= j

Unwind(s) ==
    IF Ok(s) THEN s
    ELSE LET j == CatchIndex(s.ctl)
         IN  IF j = 0
             THEN [s EXCEPT !.ctl = <<>>, !.status = "thrown", !.error = s.x,
                            !.events = {}, !.obs = NoObs]
             ELSE [s EXCEPT !.ctl = [SubSeq(s.ctl, 1, j) EXCEPT ![j].pc = 2],
                            !.error = s.x, !.events = {}, !.obs = NoObs]

Apply(s0) ==
    LET s == Unwind(s0)
    IN  /\ source' = s.source
        /\ variableInputs' = s.variableInputs
        /\ frames' = s.frames
        /\ currentFrame' = s.currentFrame
        /\ isWarp' = s.isWarp
        /\ descendedIntoModulo' = s.descendedIntoModulo
        /\ localVariables' = s.localVariables
        /\ setupVariables' = s.setupVariables
        /\ setupVariablesPool' = s.setupVariablesPool
        /\ nextBorn' = s.nextBorn
        /\ ctl' = s.ctl
        /\ ret' = s.ret
        /\ status' = s.status
        /\ error' = s.error
        /\ factory' = s.factory
        /\ events' = s.events
        /\ obs' = s.obs
        /\ seen' = s.seen
        /\ UNCHANGED <<script, run, typedVars, heapVars, interpVars>>

\* the call on top of the stack is op on a node of this kind
At(op, kind) ==
    /\ status = "running"
    /\ ctl # <<>>
    /\ ctl[Len(ctl)].op = op
    /\ ctl[Len(ctl)].node.kind = kind

(***************************************************************************)
(* descendInput.  A call is a record on the call stack; pc counts the      *)
(* descents the call has made, vals holds what they returned, frag the     *)
(* text assembled so far in a local of the call.                           *)
(***************************************************************************)
MotionKinds == {"motion.setX", "motion.setY", "motion.setXY"}

\* every motion.set* statement being lowered has had an op.mod in its inputs
markModulo(s) ==
    [s EXCEPT !.ctl = [j \in 1..Len(s.ctl) |->
        IF s.ctl[j].op = "stmt" /\ s.ctl[j].node.kind \in MotionKinds
        THEN [s.ctl[j] EXCEPT !.sawMod = TRUE] ELSE s.ctl[j]]]

\* the call on top descends its input number n and goes on at pc
descend(s, c, n, pc) == call(setTop(s, [c EXCEPT !.pc = pc]), InputCall(c.node.ins[n]))
\* the call on top descends a statement list and goes on at pc
descendStack(s, c, nodes, isLoop, pc) ==
    call(setTop(s, [c EXCEPT !.pc = pc]), StackCall(nodes, isLoop))

InputConstant ==
    /\ At("input", "constant")
    /\ Apply(return(Cur, safeConstantInput(top(Cur).node.value)))

InputVarGet ==
    /\ At("input", "var.get")
    /\ LET id == top(Cur).node.name
       IN  Apply(return(descendVariableState(Cur, id), descendVariableInput(Cur, id)))

InputNoop ==
    /\ At("input", "noop")
    /\ Apply(return(Cur, TypedInput(<<"\"\"">>, TYPE_UNKNOWN)))

\* op.add
opAdd(s, c) ==
    CASE c.pc = 0 -> descend(s, c, 1, 1)
      [] c.pc = 1 ->
            LET s1 == deref(s, s.ret)
            IN  IF Ok(s1) THEN descend(s1, [c EXCEPT !.vals = <<asNumber(s.ret)>>], 2, 2)
                ELSE s1
      [] c.pc = 2 ->
            LET s1 == deref(s, s.ret)
            IN  IF Ok(s1)
                THEN return(s1, TypedInput(<<"(">> \o c.vals[1] \o <<" + ">>
                                           \o asNumber(s.ret) \o <<")">>, TYPE_NUMBER_NAN))
                ELSE s1
InputOpAdd == At("input", "op.add") /\ Apply(opAdd(Cur, top(Cur)))

\* sensing.of: name holds node.property, ins[1] is node.object
StageName == <<"_stage_">>
SpriteProperties ==
    {"x position", "y position", "direction", "costume #", "costume name", "size"}
StageProperties == {"background #", "backdrop #", "backdrop name"}
\* the cases of the two switches on the property, o the objectReference
sensingOfProperty(o, property) ==
    CASE property = "volume" -> TypedInput(<<"(">> \o o \o <<" ? ">> \o o \o <<".volume : 0)">>, TYPE_NUMBER)
      [] property \in {"background #", "backdrop #"} ->
            TypedInput(<<"(">> \o o \o <<".currentCostume + 1)">>, TYPE_NUMBER)
      [] property = "backdrop name" ->
            TypedInput(o \o <<".getCostumes()[">> \o o \o <<".currentCostume].name">>, TYPE_STRING)
      [] property = "x position" -> TypedInput(<<"(">> \o o \o <<" ? ">> \o o \o <<".x : 0)">>, TYPE_NUMBER)
      [] property = "y position" -> TypedInput(<<"(">> \o o \o <<" ? ">> \o o \o <<".y : 0)">>, TYPE_NUMBER)
      [] property = "direction" ->
            TypedInput(<<"(">> \o o \o <<" ? ">> \o o \o <<".direction : 0)">>, TYPE_NUMBER)
      [] property = "costume #" ->
            TypedInput(<<"(">> \o o \o <<" ? ">> \o o \o <<".currentCostume + 1 : 0)">>, TYPE_NUMBER)
      [] property = "costume name" ->
            TypedInput(<<"(">> \o o \o <<" ? ">> \o o \o <<".getCostumes()[">> \o o
                       \o <<".currentCostume].name : 0)">>, TYPE_UNKNOWN)
      [] property = "size" -> TypedInput(<<"(">> \o o \o <<" ? ">> \o o \o <<".size : 0)">>, TYPE_NUMBER)

sensingOf(s, c) ==
    IF c.pc = 0 THEN descend(s, c, 1, 1)
    ELSE LET s1 == deref(s, s.ret)
             property == c.node.name
         IN  IF ~Ok(s1) THEN s1
             ELSE LET object == asString(s.ret)
                  IN  IF c.node.ins[1].kind = "constant"
                      THEN LET isStage == c.node.ins[1].value = Str(StageName)
                               osrc == <<"runtime.getSpriteTargetByName(">> \o object \o <<")">>
                               s2 == IF isStage THEN s1 ELSE evaluateOnceState(s1, osrc)
                               objectReference ==
                                   IF isStage THEN <<"stage">> ELSE evaluateOnceName(s1, osrc)
                               vsrc == objectReference \o <<" && ">> \o objectReference
                                       \o <<".lookupVariableByNameAndType(\"">>
                                       \o sanitize(<<property>>) \o <<"\", \"\", true)">>
                               variableReference == evaluateOnceName(s2, vsrc)
                           IN  IF \/ property = "volume"
                                  \/ isStage /\ property \in StageProperties
                                  \/ ~isStage /\ property \in SpriteProperties
                               THEN return(s2, sensingOfProperty(objectReference, property))
                               ELSE return(evaluateOnceState(s2, vsrc),
                                           TypedInput(<<"(">> \o variableReference \o <<" ? ">>
                                                      \o variableReference \o <<".value : 0)">>,
                                                      TYPE_UNKNOWN))
                      ELSE return(s1, TypedInput(
                               <<"runtime.ext_scratch3_sensing.getAttributeOf({OBJECT: ">>
                               \o object \o <<", PROPERTY: \"">> \o sanitize(<<property>>)
                               \o <<"\" })">>, TYPE_UNKNOWN))
InputSensingOf == At("input", "sensing.of") /\ Apply(sensingOf(Cur, top(Cur)))

\* op.advlog: the right operand is descended first
opAdvlog(s, c) ==
    CASE c.pc = 0 -> descend(s, c, 2, 1)
      [] c.pc = 1 ->
            LET s1 == deref(s, s.ret)
            IN  IF Ok(s1) THEN descend(s1, [c EXCEPT !.vals = <<asNumber(s.ret)>>], 1, 2)
                ELSE s1
      [] c.pc = 2 ->
            LET s1 == deref(s, s.ret)
            IN  IF Ok(s1)
                THEN return(s1, TypedInput(<<"(Math.log(">> \o c.vals[1]
                                           \o <<")", " / ", "(Math.log(">>
                                           \o asNumber(s.ret) \o <<"))">>, TYPE_NUMBER_NAN))
                ELSE s1
InputOpAdvlog == At("input", "op.advlog") /\ Apply(opAdvlog(Cur, top(Cur)))

\* op.mod
opMod(s, c) ==
    CASE c.pc = 0 -> descend(markModulo([s EXCEPT !.descendedIntoModulo = TRUE]), c, 1, 1)
      [] c.pc = 1 ->
            LET s1 == deref(s, s.ret)
            IN  IF Ok(s1) THEN descend(s1, [c EXCEPT !.vals = <<asNumber(s.ret)>>], 2, 2)
                ELSE s1
      [] c.pc = 2 ->
            LET s1 == deref(s, s.ret)
            IN  IF Ok(s1)
                THEN return(s1, TypedInput(<<"mod(">> \o c.vals[1] \o <<", ">>
                                           \o asNumber(s.ret) \o <<")">>, TYPE_NUMBER_NAN))
                ELSE s1
InputOpMod == At("input", "op.mod") /\ Apply(opMod(Cur, top(Cur)))

\* op.equals
opEqualsCase(s, c) ==
    CASE c.pc = 0 -> descend(s, c, 1, 1)
      [] c.pc = 1 -> descend(s, [c EXCEPT !.vals = <<s.ret>>], 2, 2)
      [] c.pc = 2 ->
            LET s1 == deref(deref(s, c.vals[1]), s.ret)
            IN  IF Ok(s1) THEN return(s1, opEquals(c.vals[1], s.ret)) ELSE s1
InputOpEquals == At("input", "op.equals") /\ Apply(opEqualsCase(Cur, top(Cur)))

\* procedures.call as an expression: after the last argument
procedureCallInputEnd(s, c, frag) ==
    return(note(resetVariableInputs(s), "procedures.call"),
           TypedInput(frag \o <<"))">>, TYPE_STRING))

procedureCallInput(s, c) ==
    LET procedureData == Procedures(script)[c.node.name]
        nargs == IF procedureData.arguments > 0 THEN Len(c.node.ins) ELSE 0
    IN  IF c.pc = 0
        THEN IF ~procedureData.stack THEN return(s, Undefined)
             ELSE LET s1 == IF ~s.isWarp /\ script.isProcedure /\ c.node.name = "self"
                            THEN yieldNotWarp(remember(s, "recursion"))
                            ELSE IF script.isProcedure /\ c.node.name = "self"
                            THEN remember(s, "warpRecursion") ELSE s
                      s2 == IF procedureData.yields /\ ~script.yields
                            THEN throw(remember(s1, "yieldMismatch"),
                                       "Script uses yielding procedure but is not marked as yielding.")
                            ELSE s1
                      frag == <<"(">> \o (IF procedureData.yields THEN <<"yield* ">> ELSE <<>>)
                              \o <<"thread.procedures[\"", c.node.name, "\"](">>
                  IN  IF nargs = 0 THEN procedureCallInputEnd(s2, c, frag)
                      ELSE descend(s2, [c EXCEPT !.frag = frag, !.i = 1], 1, 1)
        ELSE LET s1 == deref(s, s.ret)
             IN  IF ~Ok(s1) THEN s1
                 ELSE LET frag == c.frag \o (IF c.i > 1 THEN <<",">> ELSE <<>>) \o asSafe(s.ret)
                      IN  IF c.i = nargs THEN procedureCallInputEnd(s1, c, frag)
                          ELSE descend(s1, [c EXCEPT !.frag = frag, !.i = c.i + 1],
                                       c.i + 1, 1)
InputProceduresCall == At("input", "procedures.call") /\ Apply(procedureCallInput(Cur, top(Cur)))

\* control.inlineStackOutput
inlineStackOutput(s, c) ==
    IF c.pc = 0
    THEN descendStack(setSource(s, <<"(yield* (function*() {">>),
                      [c EXCEPT !.src0 = s.source], c.node.stks[1], FALSE, 1)
    ELSE LET s1 == emit(s, <<"})())">>)
         IN  return(note(setSource(s1, c.src0), "yield"),
                    TypedInput(s1.source, TYPE_UNKNOWN))
InputInlineStackOutput ==
    At("input", "control.inlineStackOutput") /\ Apply(inlineStackOutput(Cur, top(Cur)))

\* pmEventsExpansion.broadcastFunction
broadcastFunction(s, c) ==
    IF c.pc = 0
    THEN descend(localNext(s), [c EXCEPT !.vals = <<localName(s)>>], 1, 1)
    ELSE LET s1 == deref(s, s.ret)
             threads == c.vals[1]
             value == localName(s1)
             thread == localName(localNext(s1))
             frag == <<"(yield* (function*() {", "var ">> \o threads
                     \o <<" = startHats(\"event_whenbroadcastreceived\", { BROADCAST_OPTION: ">>
                     \o asString(s.ret) \o <<" });", "waitThreads(">> \o threads \o <<");">>
                     \o (IF s.isWarp THEN <<"if (isStuck()) yield;\n">> ELSE <<"yield;\n">>)
                     \o <<"var ">> \o value \o <<" = undefined;", "for (var ">> \o thread
                     \o <<" of ">> \o threads \o <<") {", "if (typeof ">> \o thread
                     \o <<".__evex_returnDataa !== 'undefined') {", "return ">> \o thread
                     \o <<".__evex_returnDataa;", "}", "}", "return '';", "})())">>
         IN  IF ~Ok(s1) THEN s1
             ELSE return(note(localNext(localNext(resetVariableInputs(s1))), "yield"),
                         TypedInput(frag, TYPE_STRING))
InputBroadcastFunction ==
    At("input", "pmEventsExpansion.broadcastFunction") /\ Apply(broadcastFunction(Cur, top(Cur)))

\* The text being emitted is in the body of a loop of the function it is in: of
\* the calls under way, the innermost one that emits a loop around its statement
\* list or a function around it is one that emits a loop.
LoopBody(c) ==
    c.op = "stmt" /\ c.node.kind \in {"control.for", "control.repeat", "control.while"}
    /\ c.pc = 2
FunctionBody(c) ==
    \/ c.op = "input" /\ c.node.kind = "control.inlineStackOutput" /\ c.pc = 1
    \/ c.node.kind = "compat" /\ c.pc = 2
EnclosedByLoop(calling) ==
    LET around == {k \in 1..(Len(calling) - 1) :
                      LoopBody(calling[k]) \/ FunctionBody(calling[k])}
    IN  /\ around # {}
        /\ LoopBody(calling[CHOOSE k \in around : \A m \in around : m <= k])

\* generateCompatibilityLayerCall: after the inputs and the fields
compatFinish(s, c) ==
    LET src == <<"runtime.getOpcodeFunction(\"", "opcode", "\")">>
        s1 == evaluateOnceState(s, src)
        result == c.frag \o <<"\"mutation\":undefined,", "}, ">> \o evaluateOnceName(s, src)
                  \o <<", ", BoolTok(s.isWarp), ", ", BoolTok(c.flag), ", null)">>
    IN  IF ~Ok(s) THEN s
        ELSE IF c.op = "input"
        THEN return(note(s1, "yield"), TypedInput(<<"(">> \o result \o <<")">>, TYPE_UNKNOWN))
        ELSE LET s2 == setSource(s1, c.src0 \o result \o <<";\n">>)
                 s3 == IF c.flag
                       THEN remember(emit(s2, <<"if (hasResumedFromPromise) {hasResumedFromPromise = false;continue;}\n">>),
                                     IF EnclosedByLoop(s.ctl) THEN "continue"
                                     ELSE "continueOutsideLoop")
                       ELSE s2
             IN  pop(note(s3, "yield"))

\* the text of result from the last function literal opened for a substack on
SubstackOpens == "\"substack\":(function* () {\n"
FunctionLiteral(result) ==
    LET opens == {k \in 1..Len(result) : result[k] = SubstackOpens}
    IN  SubSeq(result, (CHOOSE k \in opens : \A m \in opens : m <= k) + 1, Len(result))

\* generateCompatibilityLayerCall: the next input, the next substack, or the end
compatAdvance(s, c) ==
    IF ~Ok(s) THEN s
    ELSE IF c.i < Len(c.node.ins) THEN descend(s, c, c.i + 1, 1)
    ELSE IF c.i < Len(c.node.ins) + Len(c.node.stks)
    THEN descendStack(s, [c EXCEPT !.frag = @ \o <<SubstackOpens>>, !.vals = <<s.source>>],
                      c.node.stks[c.i + 1 - Len(c.node.ins)], TRUE, 2)
    ELSE compatFinish(s, c)

\* the compat case of descendInput and of descendStackedBlock
generateCompatibilityLayerCall(s, c) ==
    CASE c.pc = 0 ->
            compatAdvance(s, [c EXCEPT !.frag = <<"yield* executeInCompatibilityLayer({">>,
                                       !.src0 = s.source,
                                       !.flag = IF c.op = "stmt"
                                                THEN isLastBlockInLoop(s.frames) ELSE FALSE])
      [] c.pc = 1 ->
            LET s1 == deref(s, s.ret)
            IN  IF Ok(s1)
                THEN compatAdvance(s1, [c EXCEPT !.frag = @ \o <<"\"", "INPUT", "\":">>
                                                        \o asSafe(s.ret) \o <<",">>,
                                                 !.i = c.i + 1])
                ELSE s1
      [] c.pc = 2 ->
            LET before == c.vals[1]
                lowered == SubSeq(s.source, Len(before) + 1, Len(s.source))
                s1 == observe(s, [kind |-> "compat.substack", lowered |-> lowered,
                                  literal |-> FunctionLiteral(c.frag),
                                  appended |-> s.source # before])
            IN  compatAdvance(s1, [c EXCEPT !.frag = @ \o <<"}),">>, !.i = c.i + 1])
InputCompat == At("input", "compat") /\ Apply(generateCompatibilityLayerCall(Cur, top(Cur)))
StmtCompat == At("stmt", "compat") /\ Apply(generateCompatibilityLayerCall(Cur, top(Cur)))

(***************************************************************************)
(* The extension hook of descendInput and descendStackedBlock.  The        *)
(* transformer of the registered kind descends the node's inputs, then its *)
(* statement lists, then throws or emits, as node.name says.  pc = 1 while *)
(* the transformer runs (the try block), pc = 2 once the catch has run.    *)
(***************************************************************************)
transformerAdvance(s, c) ==
    IF c.i < Len(c.node.ins) THEN descend(s, [c EXCEPT !.i = c.i + 1], c.i + 1, 1)
    ELSE IF c.i < Len(c.node.ins) + Len(c.node.stks)
    THEN descendStack(s, [c EXCEPT !.i = c.i + 1], c.node.stks[c.i + 1 - Len(c.node.ins)],
                      FALSE, 1)
    ELSE IF c.node.name = "throw"
    THEN throw(setTop(s, [c EXCEPT !.pc = 1]), "Error: transformer failed")
    ELSE IF c.op = "input" THEN return(s, TypedInput(<<"ext()">>, TYPE_UNKNOWN))
    ELSE pop(emit(s, <<"ext();\n">>))

extensionHook(s, c) ==
    IF c.pc < 2 THEN transformerAdvance(s, c)
    ELSE IF c.op = "input" THEN return(remember(s, "transformerFailed"), NullInput)
    ELSE pop(remember(s, "transformerFailed"))

InputExtension ==
    /\ status = "running" /\ ctl # <<>>
    /\ ctl[Len(ctl)].op = "input" /\ hasExtensionJs(ctl[Len(ctl)].node)
    /\ Apply(extensionHook(Cur, top(Cur)))
StmtExtension ==
    /\ status = "running" /\ ctl # <<>>
    /\ ctl[Len(ctl)].op = "stmt" /\ hasExtensionJs(ctl[Len(ctl)].node)
    /\ Apply(extensionHook(Cur, top(Cur)))

\* the kinds descendInput and descendStackedBlock have a case for
InputKinds ==
    {"constant", "var.get", "noop", "op.add", "op.advlog", "op.mod", "op.equals", "procedures.call",
     "control.inlineStackOutput", "pmEventsExpansion.broadcastFunction", "compat",
     "sensing.of"}
StmtKinds ==
    {"addons.call", "compat", "control.deleteClone", "control.allAtOnce", "control.if",
     "control.repeat", "control.runAsSprite", "control.stopAll", "control.stopOthers",
     "control.stopScript",
     "control.for", "control.wait", "control.waitOrUntil",
     "control.waitUntil", "control.while", "event.broadcast", "event.broadcastAndWait",
     "looks.setSize", "motion.setX", "motion.setY", "motion.setXY", "procedures.call",
     "var.set"}

\* the default case of descendInput
InputUnknown ==
    /\ status = "running" /\ ctl # <<>>
    /\ ctl[Len(ctl)].op = "input"
    /\ ~hasExtensionJs(ctl[Len(ctl)].node)
    /\ ctl[Len(ctl)].node.kind \notin InputKinds
    /\ Apply(throw(remember(Cur, "unknownKind"),
                   "Error: JS: Unknown input: " \o top(Cur).node.kind))

\* the default case of descendStackedBlock
StmtUnknown ==
    /\ status = "running" /\ ctl # <<>>
    /\ ctl[Len(ctl)].op = "stmt"
    /\ ~hasExtensionJs(ctl[Len(ctl)].node)
    /\ ctl[Len(ctl)].node.kind \notin StmtKinds
    /\ Apply(throw(remember(Cur, "unknownKind"),
                   "Error: JS: Unknown stacked block: " \o top(Cur).node.kind))

(***************************************************************************)
(* descendStackedBlock.  src0 is the value of this.source that a           *)
(* statement of the form  this.source += `... ${this.descendInput(n)} ...` *)
(* reads before its right-hand side is evaluated, and to which it appends. *)
(***************************************************************************)
\* addons.call, with descendInputRecord
addonsCall(s, c) ==
    LET end(t, inputs) ==
            pop(note(emit(t, <<"yield* executeInCompatibilityLayer(">> \o inputs
                              \o <<"}", ", ", "runtime.getAddonBlock(\"", "code",
                                   "\").callback", ", ", BoolTok(t.isWarp), ", false, ",
                                   "\"", "blockId", "\"", ");\n">>), "yield"))
    IN  IF c.pc = 0
        THEN IF c.node.ins = <<>> THEN end(s, <<"{">>)
             ELSE descend(s, [c EXCEPT !.frag = <<"{">>, !.i = 1], 1, 1)
        ELSE LET s1 == deref(s, s.ret)
             IN  IF ~Ok(s1) THEN s1
                 ELSE LET frag == c.frag \o <<"\"", "INPUT", "\":">> \o asSafe(s.ret) \o <<",">>
                      IN  IF c.i = Len(c.node.ins) THEN end(s1, frag)
                          ELSE descend(s1, [c EXCEPT !.frag = frag, !.i = c.i + 1],
                                       c.i + 1, 1)
StmtAddonsCall == At("stmt", "addons.call") /\ Apply(addonsCall(Cur, top(Cur)))

StmtControlDeleteClone ==
    /\ At("stmt", "control.deleteClone")
    /\ Apply(pop(emit(retire(emit(Cur, <<"if (!target.isOriginal) {\n",
                                         "  runtime.disposeTarget(target);\n",
                                         "  runtime.stopForTarget(target);\n">>)),
                      <<"}\n">>)))

\* control.allAtOnce: flag keeps ooldWarp
controlAllAtOnce(s, c) ==
    IF c.pc = 0
    THEN descendStack([s EXCEPT !.isWarp = TRUE], [c EXCEPT !.flag = s.isWarp],
                      c.node.stks[1], FALSE, 1)
    ELSE pop(observe([s EXCEPT !.isWarp = c.flag],
                     [kind |-> "control.allAtOnce", ooldWarp |-> c.flag]))
StmtControlAllAtOnce == At("stmt", "control.allAtOnce") /\ Apply(controlAllAtOnce(Cur, top(Cur)))

controlIf(s, c) ==
    CASE c.pc = 0 -> descend(s, [c EXCEPT !.src0 = s.source], 1, 1)
      [] c.pc = 1 ->
            LET s1 == deref(s, s.ret)
            IN  IF Ok(s1)
                THEN descendStack(setSource(s1, c.src0 \o <<"if (">> \o asBoolean(s.ret)
                                                \o <<") {\n">>),
                                  c, c.node.stks[1], FALSE, 2)
                ELSE s1
      [] c.pc = 2 ->
            IF Len(c.node.stks[2]) > 0
            THEN descendStack(emit(s, <<"} else {\n">>), c, c.node.stks[2], FALSE, 3)
            ELSE pop(emit(s, <<"}\n">>))
      [] c.pc = 3 -> pop(emit(s, <<"}\n">>))
StmtControlIf == At("stmt", "control.if") /\ Apply(controlIf(Cur, top(Cur)))

\* a test of the counter that lets only whole numbers of rounds through
RepeatTestWhole == " >= 1; "
\* the test of the counter in the loop of control.repeat
RepeatTest == " >= 0.5; "

controlRepeat(s, c) ==
    CASE c.pc = 0 ->
            descend(localNext(s), [c EXCEPT !.src0 = s.source, !.vals = <<localName(s)>>], 1, 1)
      [] c.pc = 1 ->
            LET s1 == deref(s, s.ret)
                i == c.vals[1]
            IN  IF Ok(s1)
                THEN descendStack(setSource(s1, c.src0 \o <<"for (var ">> \o i \o <<" = ">>
                                                \o asNumber(s.ret) \o <<"; ">> \o i
                                                \o <<RepeatTest>> \o i \o <<"--) {\n">>),
                                  c, c.node.stks[1], TRUE, 2)
                ELSE s1
      [] c.pc = 2 -> pop(emit(yieldLoop(s), <<"}\n">>))
StmtControlRepeat == At("stmt", "control.repeat") /\ Apply(controlRepeat(Cur, top(Cur)))

\* what a statement appended to this.source, s0 the state before it and s the state after
emitted(s0, s) == SubSeq(s.source, Len(s0.source) + 1, Len(s.source))
observeStop(s0, s, kind) == observe(s, [kind |-> kind, emitted |-> emitted(s0, s)])

StmtControlStopAll ==
    /\ At("stmt", "control.stopAll")
    /\ Apply(pop(observeStop(Cur, retire(emit(Cur, <<"runtime.stopAll();\n">>)),
                             "control.stopAll")))

\* control.stopOthers with the retire of control.stopAll after the call
controlStopOthersRetiring(s) == retire(emit(s, <<"runtime.stopForTarget(target, thread);\n">>))
controlStopOthers(s) == emit(s, <<"runtime.stopForTarget(target, thread);\n">>)
StmtControlStopOthers ==
    /\ At("stmt", "control.stopOthers")
    /\ Apply(pop(observeStop(Cur, controlStopOthers(Cur), "control.stopOthers")))

StmtControlStopScript ==
    /\ At("stmt", "control.stopScript")
    /\ Apply(pop(IF script.isProcedure THEN emit(Cur, <<"return;\n">>) ELSE retire(Cur)))

\* control.runAsSprite: vals keeps originalTarget, alreadySpoofing, alreadySpoofTarget
undoSpoofing(s, c) ==
    emit(s, <<"thread.target = ">> \o c.vals[1] \o <<";\n">>
            \o <<"thread.spoofing = ">> \o c.vals[2] \o <<";\n">>
            \o <<"thread.spoofTarget = ">> \o c.vals[3] \o <<";\n">>)
controlRunAsSprite(s, c) ==
    CASE c.pc = 0 -> descend(s, c, 1, 1)
      [] c.pc = 1 ->
            LET s1 == deref(s, s.ret)
            IN  IF ~Ok(s1) THEN s1
                ELSE LET sprite == asString(s.ret)
                         isStage == sprite = <<"\"">> \o StageName \o <<"\"">>
                         originalTarget == localName(s1)
                         s2 == localNext(s1)
                         targetSprite ==
                             IF isStage THEN <<"runtime.getTargetForStage()">>
                             ELSE <<"runtime.getSpriteTargetByName(">> \o sprite \o <<")">>
                         alreadySpoofing == localName(s2)
                         s3 == localNext(s2)
                         alreadySpoofTarget == localName(s3)
                         s4 == emit(localNext(s3),
                                    <<"const ">> \o originalTarget \o <<" = target;\n">>
                                    \o <<"try {\n">>
                                    \o <<"const target = (">> \o targetSprite \o <<");\n">>
                                    \o <<"if (target) {\n", "thread.target = target;\n">>
                                    \o <<"var ">> \o alreadySpoofing \o <<" = thread.spoofing;\n">>
                                    \o <<"var ">> \o alreadySpoofTarget
                                    \o <<" = thread.spoofTarget;\n">>
                                    \o <<"thread.spoofing = true;\n",
                                         "thread.spoofTarget = target;\n">>)
                     IN  descendStack(s4, [c EXCEPT !.vals = <<originalTarget, alreadySpoofing,
                                                               alreadySpoofTarget>>],
                                      c.node.stks[1], FALSE, 2)
      [] c.pc = 2 ->
            pop(emit(undoSpoofing(
                         emit(undoSpoofing(s, c),
                              <<"}\n", "} catch (e) {\nconsole.log('as sprite function failed;', e);\n">>),
                         c),
                     <<"}\n">>))
StmtControlRunAsSprite ==
    At("stmt", "control.runAsSprite") /\ Apply(controlRunAsSprite(Cur, top(Cur)))

controlWait(s, c) ==
    IF c.pc = 0
    THEN LET s1 == emit(localNext(s), <<"thread.timer = timer();\n">>)
         IN  descend(s1, [c EXCEPT !.src0 = s1.source, !.vals = <<localName(s)>>], 1, 1)
    ELSE LET s1 == deref(s, s.ret)
             duration == c.vals[1]
             s2 == setSource(s1, c.src0 \o <<"var ">> \o duration
                                 \o <<" = Math.max(0, 1000 * ">> \o asNumber(s.ret) \o <<");\n">>)
             s3 == yieldNotWarp(requestRedraw(s2))
             s4 == emit(s3, <<"while (thread.timer.timeElapsed() < ">> \o duration \o <<") {\n">>)
             s5 == yieldStuckOrNotWarp(s4)
             s6 == emit(s5, <<"}\n", "thread.timer = null;\n">>)
         IN  IF Ok(s1)
             THEN pop(observe(s6, [kind |-> "control.wait", duration |-> duration,
                                   isWarp |-> s.isWarp,
                                   emitted |-> SubSeq(s6.source, Len(c.src0),
                                                      Len(s6.source))]))
             ELSE s1
StmtControlWait == At("stmt", "control.wait") /\ Apply(controlWait(Cur, top(Cur)))

\* an expression that the emitted loop evaluates again is about to be lowered:
\* what the tracker holds is remembered
reevaluated(s) ==
    IF DOMAIN s.variableInputs # {} THEN remember(s, "trackedCondition") ELSE s

controlWaitUntil(s, c) ==
    IF c.pc = 0
    THEN descend(reevaluated(resetVariableInputs(s)), [c EXCEPT !.src0 = s.source], 1, 1)
    ELSE LET s1 == deref(s, s.ret)
         IN  IF Ok(s1)
             THEN pop(emit(yieldStuckOrNotWarp(setSource(s1, c.src0 \o <<"while (!">>
                                                             \o asBoolean(s.ret) \o <<") {\n">>)),
                           <<"}\n">>))
             ELSE s1
StmtControlWaitUntil == At("stmt", "control.waitUntil") /\ Apply(controlWaitUntil(Cur, top(Cur)))

\* control.waitOrUntil: ins holds the condition, then the seconds; the tracker
\* is left as the statements before it made it
controlWaitOrUntil(s, c) ==
    CASE c.pc = 0 ->
            descend(reevaluated(localNext(s)), [c EXCEPT !.vals = <<localName(s)>>], 1, 1)
      [] c.pc = 1 ->
            LET s1 == deref(s, s.ret)
                s2 == emit(s1, <<"thread.timer = timer();\n">>)
            IN  IF Ok(s1)
                THEN descend(s2, [c EXCEPT !.frag = asBoolean(s.ret), !.src0 = s2.source], 2, 2)
                ELSE s1
      [] c.pc = 2 ->
            LET s1 == deref(s, s.ret)
                duration == c.vals[1]
                s2 == setSource(s1, c.src0 \o <<"var ">> \o duration
                                    \o <<" = Math.max(0, 1000 * ">> \o asNumber(s.ret) \o <<");\n">>)
                s3 == yieldNotWarp(requestRedraw(s2))
                s4 == emit(s3, <<"while ((thread.timer.timeElapsed() < ">> \o duration
                               \o <<") && (!(">> \o c.frag \o <<"))) {\n">>)
                s5 == yieldStuckOrNotWarp(s4)
            IN  IF Ok(s1) THEN pop(emit(s5, <<"}\n", "thread.timer = null;\n">>)) ELSE s1
StmtControlWaitOrUntil ==
    At("stmt", "control.waitOrUntil") /\ Apply(controlWaitOrUntil(Cur, top(Cur)))

\* control.for: name is the id of the variable, ins holds the count
controlFor(s, c) ==
    CASE c.pc = 0 ->
            LET index == localName(s)
                s1 == emit(localNext(resetVariableInputs(s)), <<"var ">> \o index \o <<" = 0; ">>)
            IN  descend(reevaluated(s1), [c EXCEPT !.vals = <<index>>, !.src0 = s1.source], 1, 1)
      [] c.pc = 1 ->
            LET s1 == deref(s, s.ret)
                index == c.vals[1]
                s2 == setSource(s1, c.src0 \o <<"while (">> \o index \o <<" < ">>
                                    \o asNumber(s.ret) \o <<") { ">>)
                s3 == emit(s2, index \o <<"++; ">>)
                s4 == evaluateOnceState(s3, referenceSource(c.node.name))
                s5 == emit(s4, evaluateOnceName(s3, referenceSource(c.node.name))
                               \o <<".value = ">> \o index \o <<";\n">>)
            IN  IF Ok(s1) THEN descendStack(s5, c, c.node.stks[1], TRUE, 2) ELSE s1
      [] c.pc = 2 -> pop(emit(yieldLoop(s), <<"}\n">>))
StmtControlFor == At("stmt", "control.for") /\ Apply(controlFor(Cur, top(Cur)))

controlWhile(s, c) ==
    CASE c.pc = 0 -> descend(reevaluated(resetVariableInputs(s)), [c EXCEPT !.src0 = s.source], 1, 1)
      [] c.pc = 1 ->
            LET s1 == deref(s, s.ret)
            IN  IF Ok(s1)
                THEN descendStack(setSource(s1, c.src0 \o <<"while (">> \o asBoolean(s.ret)
                                                \o <<") {\n">>),
                                  c, c.node.stks[1], TRUE, 2)
                ELSE s1
      [] c.pc = 2 ->
            pop(emit(IF c.node.flag THEN yieldStuckOrNotWarp(s) ELSE yieldLoop(s), <<"}\n">>))
StmtControlWhile == At("stmt", "control.while") /\ Apply(controlWhile(Cur, top(Cur)))

eventBroadcast(s, c) ==
    IF c.pc = 0 THEN descend(s, [c EXCEPT !.src0 = s.source], 1, 1)
    ELSE LET s1 == deref(s, s.ret)
         IN  IF Ok(s1)
             THEN pop(note(resetVariableInputs(setSource(s1,
                      c.src0 \o <<"startHats(\"event_whenbroadcastreceived\", { BROADCAST_OPTION: ">>
                      \o asString(s.ret) \o <<" });\n">>)), "event.broadcast"))
             ELSE s1
StmtEventBroadcast == At("stmt", "event.broadcast") /\ Apply(eventBroadcast(Cur, top(Cur)))

eventBroadcastAndWait(s, c) ==
    IF c.pc = 0 THEN descend(s, [c EXCEPT !.src0 = s.source], 1, 1)
    ELSE LET s1 == deref(s, s.ret)
         IN  IF Ok(s1)
             THEN pop(note(note(yielded(setSource(s1,
                      c.src0 \o <<"yield* waitThreads(startHats(",
                                  "\"event_whenbroadcastreceived\", { BROADCAST_OPTION: ">>
                      \o asString(s.ret) \o <<" }));\n">>)), "event.broadcastAndWait"), "yield"))
             ELSE s1
StmtEventBroadcastAndWait ==
    At("stmt", "event.broadcastAndWait") /\ Apply(eventBroadcastAndWait(Cur, top(Cur)))

looksSetSize(s, c) ==
    IF c.pc = 0 THEN descend(s, [c EXCEPT !.src0 = s.source], 1, 1)
    ELSE LET s1 == deref(s, s.ret)
         IN  IF Ok(s1)
             THEN pop(setSource(s1, c.src0 \o <<"target.setSize(">> \o asNumber(s.ret)
                                    \o <<");\n">>))
             ELSE s1
StmtLooksSetSize == At("stmt", "looks.setSize") /\ Apply(looksSetSize(Cur, top(Cur)))

\* motion.setX, motion.setY, motion.setXY: ins holds the inputs the node has, x first
motionSet(s, c) ==
    LET end(t, vals) ==
            LET x == IF c.node.kind = "motion.setY" THEN <<"target.x">> ELSE vals[1]
                y == IF c.node.kind = "motion.setX" THEN <<"target.y">> ELSE vals[Len(vals)]
                t1 == emit(t, <<"target.setXY(">> \o x \o <<", ">> \o y \o <<");\n">>)
                t2 == IF t.descendedIntoModulo
                      THEN emit(t1, <<"if (target.interpolationData) target.interpolationData = null;\n">>)
                      ELSE t1
            IN  pop(observe(t2, [kind |-> c.node.kind, sawMod |-> top(t).sawMod,
                                 interp |-> t.descendedIntoModulo]))
    IN  IF c.pc = 0
        THEN descend([s EXCEPT !.descendedIntoModulo = FALSE], c, 1, 1)
        ELSE LET s1 == deref(s, s.ret)
                 vals == c.vals \o <<asNumber(s.ret)>>
             IN  IF ~Ok(s1) THEN s1
                 ELSE IF c.pc < Len(c.node.ins)
                 THEN descend(s1, [c EXCEPT !.vals = vals], c.pc + 1, c.pc + 1)
                 ELSE end(s1, vals)
StmtMotionSetX == At("stmt", "motion.setX") /\ Apply(motionSet(Cur, top(Cur)))
StmtMotionSetY == At("stmt", "motion.setY") /\ Apply(motionSet(Cur, top(Cur)))
StmtMotionSetXY == At("stmt", "motion.setXY") /\ Apply(motionSet(Cur, top(Cur)))

\* procedures.call as a statement: after the last argument
procedureCallEnd(s, args) ==
    pop(note(resetVariableInputs(emit(s, args \o <<");\n">>)), "procedures.call"))

procedureCall(s, c) ==
    LET procedureData == Procedures(script)[c.node.name]
        nargs == IF procedureData.arguments > 0 THEN Len(c.node.ins) ELSE 0
    IN  IF c.pc = 0
        THEN IF ~procedureData.stack THEN pop(s)
             ELSE LET s1 == IF ~s.isWarp /\ script.isProcedure /\ c.node.name = "self"
                            THEN yieldNotWarp(remember(s, "recursion"))
                            ELSE IF script.isProcedure /\ c.node.name = "self"
                            THEN remember(s, "warpRecursion") ELSE s
                      s2 == IF procedureData.yields THEN emit(s1, <<"yield* ">>) ELSE s1
                      s3 == IF procedureData.yields /\ ~script.yields
                            THEN throw(remember(s2, "yieldMismatch"),
                                       "Script uses yielding procedure but is not marked as yielding.")
                            ELSE s2
                      s4 == emit(s3, <<"thread.procedures[\"", c.node.name, "\"](">>)
                  IN  IF nargs = 0 THEN procedureCallEnd(s4, <<>>)
                      ELSE descend(s4, [c EXCEPT !.i = 1], 1, 1)
        ELSE LET s1 == deref(s, s.ret)
             IN  IF ~Ok(s1) THEN s1
                 ELSE LET frag == c.frag \o (IF c.i > 1 THEN <<",">> ELSE <<>>) \o asSafe(s.ret)
                      IN  IF c.i = nargs THEN procedureCallEnd(s1, frag)
                          ELSE descend(s1, [c EXCEPT !.frag = frag, !.i = c.i + 1],
                                       c.i + 1, 1)
StmtProceduresCall == At("stmt", "procedures.call") /\ Apply(procedureCall(Cur, top(Cur)))

\* var.set: vals keeps the VariableInput descendVariable returned.  setInput changes
\* that object, which the tracker still holds unless it was reset in between.
varSet(s, c) ==
    IF c.pc = 0
    THEN LET id == c.node.name
         IN  descend(descendVariableState(s, id),
                     [c EXCEPT !.vals = <<descendVariableInput(s, id)>>], 1, 1)
    ELSE LET variable == c.vals[1]
             value == s.ret
             id == c.node.name
             tracked == id \in DOMAIN s.variableInputs
                        /\ s.variableInputs[id].born = variable.born
             s1 == IF tracked
                   THEN [s EXCEPT !.variableInputs[id] = setInput(s.variableInputs[id], value)]
                   ELSE s
             s2 == deref(s1, value)
         IN  IF Ok(s2) THEN pop(emit(s2, variable.source \o <<" = ">> \o asSafe(value) \o <<";\n">>))
             ELSE s2
StmtVarSet == At("stmt", "var.set") /\ Apply(varSet(Cur, top(Cur)))

(***************************************************************************)
(* descendStack: fi is the place in this.frames of the frame the call      *)
(* pushed, i the number of statements descended.                           *)
(***************************************************************************)
stackAdvance(s, c) ==
    LET nodes == c.node.stks[1]
    IN  IF c.i < Len(nodes)
        THEN LET s1 == [s EXCEPT !.frames[c.fi].isLastBlock = (c.i + 1 = Len(nodes))]
             IN  call(setTop(s1, [c EXCEPT !.i = c.i + 1, !.pc = 1]), StmtCall(nodes[c.i + 1]))
        ELSE LET s1 == popFrame(resetVariableInputs(s))
             IN  pop(note(observe(s1, [kind |-> "descendStack", before |-> c.before,
                                       frames |-> s1.frames,
                                       currentFrame |-> s1.currentFrame]),
                          "stack.leave"))

descendStackCall(s, c) ==
    IF c.pc = 0
    THEN LET s1 == note(pushFrame(resetVariableInputs(s), c.node.flag), "stack.enter")
         IN  stackAdvance(s1, [c EXCEPT !.fi = Len(s1.frames),
                                        !.before = [frames |-> s.frames,
                                                    currentFrame |-> s.currentFrame]])
    ELSE stackAdvance(s, c)
DescendStack == At("stack", "stack") /\ Apply(descendStackCall(Cur, top(Cur)))

(***************************************************************************)
(* createScriptFactory and compile.                                        *)
(***************************************************************************)
RECURSIVE SetupLines(_, _)
SetupLines(sv, i) ==
    IF i > Len(sv) THEN <<>>
    ELSE <<"const ">> \o sv[i].name \o <<" = ">> \o sv[i].source \o <<";\n">>
         \o SetupLines(sv, i + 1)

\* getScriptName
getScriptName(yields) ==
    (IF yields THEN <<"gen0">> ELSE <<"fun0">>)
    \o (IF script.isProcedure THEN <<"_", "self">> ELSE <<>>)

createScriptFactory(s) ==
    <<"(function ", "factory0", "(thread) { ", "let __target = thread.target; ",
      "let target = __target; ", "const runtime = __target.runtime; ",
      "const stage = runtime.getTargetForStage();\n">>
    \o SetupLines(s.setupVariables, 1)
    \o <<"return ", IF script.yields THEN "function* " ELSE "function ">>
    \o getScriptName(script.yields)
    \o <<" (", ") {\n", "let target = __target;\n", "if (thread.spoofing) {\n",
         "target = thread.spoofTarget;\n", "};\n">>
    \o s.source
    \o (IF ~script.isProcedure THEN <<"retire();\n">> ELSE <<>>)
    \o <<"}; })">>

\* compile, once descendStack(this.script.stack) has returned
CreateScriptFactory ==
    /\ status = "running"
    /\ ctl = <<>>
    /\ Apply([Cur EXCEPT !.factory = createScriptFactory(Cur), !.status = "done"])

(***************************************************************************)
(* A thread running the statements of the compiled script, as far as they  *)
(* read and write thread.target, thread.spoofing and thread.spoofTarget.   *)
(* Values are written as text.  pc is the place in this.source; target is  *)
(* the variable target of the script function, one value per block that    *)
(* declares it; vars holds the local variables; blocks the blocks entered, *)
(* with the thread as it was when a try was entered; left tells how the    *)
(* last step left a try statement.                                         *)
(***************************************************************************)
NotRunning ==
    [state |-> "idle", pc |-> 0,
     thread |-> [target |-> "null", spoofing |-> "false", spoofTarget |-> "null"],
     target |-> <<>>, vars |-> <<>>, blocks |-> <<>>, left |-> NoObs]

BlockOpen == {") {\n", "--) {\n", "try {\n", "if (target) {\n", "if (!target.isOriginal) {\n"}
BlockTurn == {"} else {\n", "} catch (e) {\nconsole.log('as sprite function failed;', e);\n"}
BlockClose == {"}\n"}

\* the place of the token that ends the block of which token a is the first inside
BlockEnd(toks, a) ==
    LET nesting(j) == Cardinality({m \in a..(j - 1) : toks[m] \in BlockOpen})
                      - Cardinality({m \in a..(j - 1) : toks[m] \in BlockClose})
        ends == {j \in a..Len(toks) : toks[j] \in BlockTurn \cup BlockClose /\ nesting(j) = 0}
    IN  IF ends = {} THEN Len(toks) + 1 ELSE CHOOSE j \in ends : \A m \in ends : j <= m

\* the value of a local variable: undefined before its var statement has run
Lookup(r, name) == IF name \in DOMAIN r.vars THEN r.vars[name] ELSE "undefined"
Assign(r, name, value) ==
    [r EXCEPT !.vars = (name :> value) @@ r.vars, !.pc = r.pc + Len(name) + 2]
\* the block on top is left, and the target it declared with it
LeaveBlock(r) ==
    LET b == r.blocks[Len(r.blocks)]
    IN  [r EXCEPT !.blocks = SubSeq(@, 1, Len(@) - 1),
                  !.target = IF b.declares THEN SubSeq(@, 1, Len(@) - 1) ELSE @]
EnterBlock(r, kind, snap) ==
    [r EXCEPT !.blocks = Append(@, [kind |-> kind, open |-> r.pc, declares |-> FALSE,
                                    snap |-> snap]),
              !.pc = r.pc + 1]
\* a try statement is left: were the three fields as they were when it was entered
Left(r, how, snaps) ==
    [r EXCEPT !.left = [kind |-> "leave", how |-> how,
                        restored |-> \A i \in 1..Len(snaps) : r.thread = snaps[i]]]
RECURSIVE TrySnaps(_)
TrySnaps(blocks) ==
    IF blocks = <<>> THEN <<>>
    ELSE TrySnaps(SubSeq(blocks, 1, Len(blocks) - 1))
         \o (IF blocks[Len(blocks)].kind \in {"try", "catch"}
             THEN <<blocks[Len(blocks)].snap>> ELSE <<>>)

\* the statement at pc is run; found tells whether getSpriteTargetByName finds a sprite,
\* taken whether the condition of an if holds
Execute(r0, toks, found, taken) ==
    LET r == [r0 EXCEPT !.left = NoObs]
        tok == toks[r.pc]
        name == SubSeq(toks, r.pc + 1, r.pc + 2)
        after == IF r.pc + 3 <= Len(toks) THEN toks[r.pc + 3] ELSE ""
        lexical == r.target[Len(r.target)]
        end == BlockEnd(toks, r.pc + 1)
    IN  CASE tok = "const " /\ after = " = target;\n" -> Assign(r, name, lexical)
          [] tok = "var " /\ after = " = thread.spoofing;\n" ->
                Assign(r, name, r.thread.spoofing)
          [] tok = "var " /\ after = " = thread.spoofTarget;\n" ->
                Assign(r, name, r.thread.spoofTarget)
          [] tok = "try {\n" -> EnterBlock(r, "try", r.thread)
          [] tok = "const target = (" ->
                LET sprite == IF toks[r.pc + 1] = "runtime.getTargetForStage()" \/ found
                              THEN "Sprite" ELSE "undefined"
                    close == CHOOSE j \in (r.pc + 1)..Len(toks) :
                                /\ toks[j] = ");\n"
                                /\ \A m \in (r.pc + 1)..(j - 1) : toks[m] # ");\n"
                IN  [r EXCEPT !.target = Append(@, sprite),
                              !.blocks[Len(r.blocks)].declares = TRUE,
                              !.pc = close + 1]
          [] tok = "if (target) {\n" ->
                IF lexical \notin {"null", "undefined"} THEN EnterBlock(r, "if", r.thread)
                ELSE [r EXCEPT !.pc = end + 1]
          [] tok \in {") {\n", "--) {\n", "if (!target.isOriginal) {\n"} ->
                IF taken THEN EnterBlock(r, "if", r.thread)
                ELSE IF end <= Len(toks) /\ toks[end] = "} else {\n"
                THEN EnterBlock([r EXCEPT !.pc = end], "else", r.thread)
                ELSE [r EXCEPT !.pc = end + 1]
          [] tok = "} else {\n" -> [LeaveBlock(r) EXCEPT !.pc = end + 1]
          [] tok = "thread.target = target;\n" ->
                [r EXCEPT !.thread.target = lexical, !.pc = r.pc + 1]
          [] tok = "thread.spoofing = true;\n" ->
                [r EXCEPT !.thread.spoofing = "true", !.pc = r.pc + 1]
          [] tok = "thread.spoofTarget = target;\n" ->
                [r EXCEPT !.thread.spoofTarget = lexical, !.pc = r.pc + 1]
          [] tok = "thread.target = " ->
                [r EXCEPT !.thread.target = Lookup(r, name), !.pc = r.pc + 4]
          [] tok = "thread.spoofing = " ->
                [r EXCEPT !.thread.spoofing = Lookup(r, name), !.pc = r.pc + 4]
          [] tok = "thread.spoofTarget = " ->
                [r EXCEPT !.thread.spoofTarget = Lookup(r, name), !.pc = r.pc + 4]
          [] tok \in BlockTurn \ {"} else {\n"} ->
                \* the end of the try block: the catch block is passed over
                [Left(LeaveBlock(r), "completed", <<r.blocks[Len(r.blocks)].snap>>)
                    EXCEPT !.pc = end + 1]
          [] tok = "}\n" ->
                IF r.blocks[Len(r.blocks)].kind = "catch"
                THEN [Left(LeaveBlock(r), "caught", <<r.blocks[Len(r.blocks)].snap>>)
                         EXCEPT !.pc = r.pc + 1]
                ELSE [LeaveBlock(r) EXCEPT !.pc = r.pc + 1]
          [] tok = "return;\n" ->
                [Left(r, "returned", TrySnaps(r.blocks)) EXCEPT !.state = "returned"]
          [] tok \in {"retire(); return;\n", "retire(); yield;\n"} ->
                [r EXCEPT !.state = "retired"]
          [] OTHER -> [r EXCEPT !.pc = r.pc + 1]

\* the statement at pc throws: control goes to the catch block of the innermost try,
\* and the blocks in between are left
Raise(r, toks) ==
    LET tries == {j \in 1..Len(r.blocks) : r.blocks[j].kind = "try"}
    IN  IF tries = {} THEN [r EXCEPT !.state = "thrown", !.left = NoObs]
        ELSE LET j == CHOOSE m \in tries : \A n \in tries : n <= m
                 declared == Cardinality({m \in j..Len(r.blocks) : r.blocks[m].declares})
                 handler == BlockEnd(toks, r.blocks[j].open + 1)
             IN  [r EXCEPT !.blocks = Append(SubSeq(@, 1, j - 1),
                                            [kind |-> "catch", open |-> handler,
                                             declares |-> FALSE, snap |-> r.blocks[j].snap]),
                           !.target = SubSeq(@, 1, Len(@) - declared),
                           !.pc = handler + 1, !.left = NoObs]

\* the calls of the runtime that a statement of a substack makes
ThrowingCalls == {"target.setSize("}

RunVarsUnchanged ==
    UNCHANGED <<script, source, variableInputs, frames, currentFrame, isWarp,
                descendedIntoModulo, localVariables, setupVariables, setupVariablesPool,
                nextBorn, ctl, ret, status, error, factory, events, obs, seen, typedVars,
                heapVars, interpVars>>

\* the script function is called: target is __target, or thread.spoofTarget when an
\* enclosing run-as-sprite of the caller is spoofing
RunStart ==
    /\ status = "done" /\ run.state = "idle"
    /\ \E spoofing \in {"false", "true"} :
          run' = [NotRunning EXCEPT
                     !.state = "running", !.pc = 1,
                     !.thread = [target |-> "Caller", spoofing |-> spoofing,
                                 spoofTarget |-> IF spoofing = "true" THEN "Caller"
                                                 ELSE "null"],
                     !.target = <<"Caller">>]
    /\ RunVarsUnchanged

RunStatement ==
    /\ run.state = "running" /\ run.pc <= Len(source)
    /\ \E found, taken \in BOOLEAN : run' = Execute(run, source, found, taken)
    /\ RunVarsUnchanged

RunThrow ==
    /\ run.state = "running" /\ run.pc <= Len(source)
    /\ source[run.pc] \in ThrowingCalls
    /\ run' = Raise(run, source)
    /\ RunVarsUnchanged

RunEnd ==
    /\ run.state = "running" /\ run.pc > Len(source)
    /\ run' = [run EXCEPT !.state = "ended", !.left = NoObs]
    /\ RunVarsUnchanged

(***************************************************************************)
(* The scripts compiled.                                                   *)
(***************************************************************************)
MaxStack == 2

LooksSetSize(size) == Unary("looks.setSize", size)
MotionSetX(x) == Unary("motion.setX", x)
MotionSetY(y) == Unary("motion.setY", y)
MotionSetXY(x, y) == Binary("motion.setXY", x, y)
ControlWait(seconds) == Unary("control.wait", seconds)
ControlWaitUntil(condition) == Unary("control.waitUntil", condition)
EventBroadcast(broadcast) == Unary("event.broadcast", broadcast)
EventBroadcastAndWait(broadcast) == Unary("event.broadcastAndWait", broadcast)
BroadcastFunction(broadcast) == Unary("pmEventsExpansion.broadcastFunction", broadcast)
AddonsCall(arguments) == Node("addons.call", arguments, <<>>, Num(Fin(0)), "", FALSE)
OpMod(left, right) == Binary("op.mod", left, right)
SensingOf(object, property) == Node("sensing.of", <<object>>, <<>>, Num(Fin(0)), property, FALSE)

Five == Constant(Num(Fin(5)))
Atoms == {Five, VarGet("v1")}

\* statements that end a script or a substack
Tails ==
    {Leaf("control.stopAll"), VarSet("v1", VarGet("v2")), ProceduresCall("self", <<>>),
     LooksSetSize(VarGet("v1"))}

\* substacks
Bodies ==
    {<<>>, <<MotionSetX(Five)>>, <<MotionSetY(Five)>>, <<Bogus>>, <<VarSet("v1", Five)>>,
     <<Compat(<<>>, <<>>)>>, <<Compat(<<>>, <<>>), LooksSetSize(Five)>>,
     <<ControlIf(Five, <<Compat(<<>>, <<>>)>>, <<>>)>>,
     <<ControlIf(Five, <<LooksSetSize(Five), Compat(<<>>, <<>>)>>, <<>>), LooksSetSize(Five)>>,
     <<ControlRepeat(Five, <<>>), Compat(<<>>, <<>>)>>}

\* expressions
Inputs ==
    Atoms
    \cup {Constant(Str(<<"a", "b", "c">>)), Constant(Str(<<"1", "0">>)), VarGet("v2"),
          Leaf("noop"), Bogus, BroadcastFunction(VarGet("v1")),
          Binary("op.advlog", Five, VarGet("v1")),
          ProceduresCall("self", <<>>), ProceduresCall("yproc", <<VarGet("v1")>>),
          ProceduresCall("plain", <<Five, VarGet("v1")>>), ProceduresCall("empty", <<>>),
          Compat(<<VarGet("v1")>>, <<>>), Compat(<<>>, <<<<MotionSetX(Five)>>>>),
          Extension("ok", <<>>, <<>>), Extension("throw", <<>>, <<>>),
          Extension("ok", <<Bogus>>, <<>>), Extension("ok", <<Extension("throw", <<>>, <<>>)>>, <<>>),
          OpMod(InlineStackOutput(<<MotionSetY(Five)>>), Five),
          OpMod(Five, InlineStackOutput(<<LooksSetSize(Five)>>))}
    \cup {Binary("op.add", a, b) : a \in Atoms, b \in Atoms}
    \cup {OpMod(a, Five) : a \in Atoms}
    \cup {Binary("op.equals", a, b) : a \in Atoms \cup {Constant(Str(<<"0", "1", "0">>))},
                                      b \in Atoms \cup {Constant(Str(<<"1", "0">>))}}
    \cup {InlineStackOutput(b) : b \in Bodies}

\* attributes of a sprite, of the stage and of an object known only when the script runs
Sprite1 == Constant(Str(<<"Sprite1">>))
SensingInputs ==
    {SensingOf(Sprite1, "score"), SensingOf(Sprite1, "x position"),
     SensingOf(Constant(Str(StageName)), "score"), SensingOf(VarGet("v1"), "score")}

\* the first statement of a script
Heads ==
    {Bogus, Leaf("control.stopAll"), Leaf("control.stopOthers"), Leaf("control.stopScript"),
     Leaf("control.deleteClone")}
    \cup {LooksSetSize(e) : e \in Inputs}
    \cup {VarSet("v1", e) : e \in Inputs}
    \cup {ControlIf(e, <<>>, <<>>) : e \in Inputs}
    \cup {MotionSetX(e) : e \in Inputs}
    \cup {MotionSetY(OpMod(Five, Five)), MotionSetY(Five)}
    \cup {MotionSetXY(x, y) : x \in {Five, OpMod(Five, Five)},
                              y \in {Five, OpMod(VarGet("v1"), Five),
                                     InlineStackOutput(<<MotionSetX(Five)>>),
                                     InlineStackOutput(<<LooksSetSize(OpMod(Five, Five))>>)}}
    \cup {ControlIf(Five, b, c) : b \in Bodies, c \in {<<>>, <<LooksSetSize(Five)>>}}
    \cup {ControlRepeat(Five, b) : b \in Bodies}
    \cup {ControlWhile(VarGet("v1"), b, w) : b \in {<<>>, <<Compat(<<>>, <<>>)>>},
                                              w \in BOOLEAN}
    \cup {ControlAllAtOnce(b) : b \in {<<>>, <<ProceduresCall("self", <<>>)>>,
                                       <<ControlRepeat(Five, <<>>)>>,
                                       <<ControlWait(Five)>>}}
    \cup {ControlWait(e) : e \in Atoms} \cup {ControlWaitUntil(e) : e \in Atoms}
    \cup {EventBroadcast(e) : e \in Atoms} \cup {EventBroadcastAndWait(e) : e \in Atoms}
    \cup {ProceduresCall("yproc", <<Five>>), ProceduresCall("plain", <<VarGet("v1"), Five>>),
          ProceduresCall("empty", <<>>), ProceduresCall("self", <<>>)}
    \cup {Compat(<<>>, <<>>), Compat(<<VarGet("v1")>>, <<>>),
          Compat(<<Five>>, <<<<LooksSetSize(Five)>>>>),
          Compat(<<>>, <<<<Compat(<<>>, <<>>)>>>>),
          AddonsCall(<<>>), AddonsCall(<<VarGet("v1")>>), AddonsCall(<<Five, VarGet("v2")>>)}
    \cup {Extension(b, i, k) : b \in {"ok", "throw"}, i \in {<<>>, <<VarGet("v1")>>},
                               k \in {<<>>, <<<<Bogus>>>>, <<<<LooksSetSize(Bogus)>>>>,
                                      <<<<LooksSetSize(Five)>>>>}}
    \cup {Extension("ok", <<>>, <<<<ControlWait(Five)>>>>),
          Extension("ok", <<>>, <<<<ControlAllAtOnce(<<Bogus>>)>>>>),
          ControlRepeat(Five, <<LooksSetSize(InlineStackOutput(<<Compat(<<>>, <<>>)>>))>>),
          ControlWaitOrUntil(Five, VarGet("v1")),
          ControlIf(Five, <<VarSet("v1", Five), ControlWaitOrUntil(Five, VarGet("v1"))>>, <<>>),
          ControlFor("v1", VarGet("v2"), <<>>),
          ControlIf(Five, <<VarSet("v2", Five),
                            ControlFor("v1", VarGet("v2"), <<LooksSetSize(Five)>>)>>, <<>>)}
    \cup {ControlRunAsSprite(Sprite1, <<Leaf("control.stopScript")>>),
          ControlRunAsSprite(VarGet("v1"), <<Bogus>>)}
    \cup {LooksSetSize(Binary("op.add", a, b)) :
              a \in SensingInputs, b \in {SensingOf(Sprite1, "score"), SensingOf(Sprite1, "volume")}}

RECURSIVE TailSeqs(_)
TailSeqs(n) ==
    IF n = 0 THEN {<<>>}
    ELSE TailSeqs(n - 1) \cup {Append(t, x) : t \in TailSeqs(n - 1), x \in Tails}

Stacks == {<<>>} \cup {<<h>> \o t : h \in Heads, t \in TailSeqs(MaxStack - 1)}

Scripts ==
    [stack : Stacks, isWarp : BOOLEAN, isProcedure : BOOLEAN, yields : BOOLEAN,
     warpTimer : BOOLEAN]

Idle == NullInput

Init ==
    /\ script \in Scripts
    /\ source = <<>>
    /\ variableInputs = <<>>
    /\ frames = <<>>
    /\ currentFrame = 0
    /\ isWarp = script.isWarp
    /\ descendedIntoModulo = FALSE
    /\ localVariables = 0
    /\ setupVariables = <<>>
    /\ setupVariablesPool = 0
    /\ nextBorn = 0
    /\ ctl = <<StackCall(script.stack, FALSE)>>
    /\ ret = NullInput
    /\ status = "running"
    /\ error = ""
    /\ factory = <<>>
    /\ events = {}
    /\ obs = NoObs
    /\ seen = {}
    /\ run = NotRunning
    /\ tLeft = Idle /\ tRight = Idle /\ tOut = Idle
    /\ vheap = <<>> /\ vquery = Idle
    /\ runtime = NoRuntime /\ calls = NoCalls

Next ==
    \/ DescendStack
    \/ InputConstant \/ InputVarGet \/ InputNoop \/ InputOpAdd \/ InputOpAdvlog \/ InputOpMod
    \/ InputOpEquals \/ InputProceduresCall \/ InputInlineStackOutput
    \/ InputBroadcastFunction \/ InputSensingOf \/ InputCompat \/ InputExtension \/ InputUnknown
    \/ StmtAddonsCall \/ StmtCompat \/ StmtControlDeleteClone \/ StmtControlAllAtOnce
    \/ StmtControlIf \/ StmtControlRepeat \/ StmtControlRunAsSprite \/ StmtControlStopAll
    \/ StmtControlStopOthers \/ StmtControlStopScript
    \/ StmtControlWait \/ StmtControlWaitUntil \/ StmtControlWhile \/ StmtEventBroadcast
    \/ StmtEventBroadcastAndWait \/ StmtLooksSetSize \/ StmtMotionSetX \/ StmtMotionSetY
    \/ StmtMotionSetXY \/ StmtProceduresCall \/ StmtVarSet \/ StmtExtension \/ StmtUnknown
    \/ StmtControlWaitOrUntil \/ StmtControlFor
    \/ CreateScriptFactory

Spec == Init /\ [][Next]_vars

(***************************************************************************)
(* Scripts that run a substack as another sprite, compiled and then run.   *)
(***************************************************************************)
MaxNest == 2

RECURSIVE RunBodies(_)
RunBodies(n) ==
    IF n = 0
    THEN {<<>>, <<LooksSetSize(Five)>>, <<Leaf("control.stopScript")>>,
          <<LooksSetSize(Five), Leaf("control.stopScript")>>,
          <<ControlIf(VarGet("v1"), <<Leaf("control.stopScript")>>, <<LooksSetSize(Five)>>)>>}
    ELSE RunBodies(n - 1)
         \cup {<<ControlRunAsSprite(Sprite1, b)>> : b \in RunBodies(n - 1)}
         \cup {<<ControlRunAsSprite(Sprite1, b), LooksSetSize(Five)>> : b \in RunBodies(n - 1)}

RunScripts ==
    [stack : {<<ControlRunAsSprite(sprite, b)>> \o tail :
                 sprite \in {Sprite1, Constant(Str(StageName)), VarGet("v1")},
                 b \in RunBodies(MaxNest - 1),
                 tail \in {<<>>, <<LooksSetSize(Five)>>}},
     isWarp : {FALSE}, isProcedure : BOOLEAN, yields : {FALSE}, warpTimer : {FALSE}]

InitRun ==
    /\ script \in RunScripts
    /\ source = <<>>
    /\ variableInputs = <<>>
    /\ frames = <<>>
    /\ currentFrame = 0
    /\ isWarp = script.isWarp
    /\ descendedIntoModulo = FALSE
    /\ localVariables = 0
    /\ setupVariables = <<>>
    /\ setupVariablesPool = 0
    /\ nextBorn = 0
    /\ ctl = <<StackCall(script.stack, FALSE)>>
    /\ ret = NullInput
    /\ status = "running"
    /\ error = ""
    /\ factory = <<>>
    /\ events = {}
    /\ obs = NoObs
    /\ seen = {}
    /\ run = NotRunning
    /\ tLeft = Idle /\ tRight = Idle /\ tOut = Idle
    /\ vheap = <<>> /\ vquery = Idle
    /\ runtime = NoRuntime /\ calls = NoCalls

NextRun ==
    \/ DescendStack \/ InputConstant \/ InputVarGet \/ StmtControlIf
    \/ StmtControlRunAsSprite \/ StmtControlStopScript \/ StmtLooksSetSize
    \/ CreateScriptFactory
    \/ RunStart \/ RunStatement \/ RunThrow \/ RunEnd

SpecRun == InitRun /\ [][NextRun]_vars

(***************************************************************************)
(* A thread running the for loops of the compiled script.  Numbers are     *)
(* counted in halves.  value is what the variable v1 holds; vars holds the *)
(* counters; loops the loops whose body is running, innermost last;        *)
(* evaluations, tests and bodies count what the outermost loop has done,   *)
(* and counter is its counter at the test that ended it.                   *)
(***************************************************************************)
MaxCount == 3
Counts == (0 - 2)..(2 * MaxCount)

\* the first place from a on where tok stands
Place(toks, a, tok) ==
    CHOOSE j \in a..Len(toks) : toks[j] = tok /\ \A m \in a..(j - 1) : toks[m] # tok

\* the value, in halves, of the text asNumber() gave for the count
EvaluateCount(expr, value) ==
    IF expr[1] = "(+" THEN (IF value.nan THEN 0 ELSE value.n)
    ELSE 2 * DigitsValue(expr)

\* the least counter, in halves, that passes a test
Threshold(test) == IF test = " >= 0.5; " THEN 1 ELSE 2
LoopTests == {" >= 0.5; ", " >= 1; "}

LoopExecute(r, toks) ==
    LET tok == toks[r.pc]
        outermost == r.loops = <<>>
    IN  CASE tok = "for (var " ->
                \* the initialiser: runs once, when the statement is reached
                LET eq == Place(toks, r.pc, " = ")
                    semi == Place(toks, eq, "; ")
                    name == SubSeq(toks, r.pc + 1, eq - 1)
                    init == EvaluateCount(SubSeq(toks, eq + 1, semi - 1), r.value)
                IN  [r EXCEPT !.vars = (name :> init) @@ r.vars,
                              !.evaluations = IF outermost THEN @ + 1 ELSE @,
                              !.pc = semi + Len(name) + 1]
          [] tok \in LoopTests ->
                LET name == SubSeq(toks, r.pc + 1, Place(toks, r.pc, "--) {\n") - 1)
                    open == Place(toks, r.pc, "--) {\n")
                IN  IF r.vars[name] >= Threshold(tok)
                    THEN [r EXCEPT !.loops = Append(@, [test |-> r.pc, name |-> name,
                                                        end |-> BlockEnd(toks, open + 1)]),
                                   !.tests = IF outermost THEN @ + 1 ELSE @,
                                   !.bodies = IF outermost THEN @ + 1 ELSE @,
                                   !.pc = open + 1]
                    ELSE [r EXCEPT !.tests = IF outermost THEN @ + 1 ELSE @,
                                   !.counter = IF outermost THEN r.vars[name] ELSE @,
                                   !.pc = BlockEnd(toks, open + 1) + 1]
          [] tok = "}\n" /\ r.loops # <<>> /\ r.loops[Len(r.loops)].end = r.pc ->
                \* the end of the body: the counter is decremented, then tested
                LET loop == r.loops[Len(r.loops)]
                IN  [r EXCEPT !.vars[loop.name] = @ - 2,
                              !.loops = SubSeq(@, 1, Len(@) - 1),
                              !.pc = loop.test]
          [] OTHER -> [r EXCEPT !.pc = r.pc + 1]

\* the script function is called, v1 holding a number or NaN
RepeatStart ==
    /\ status = "done" /\ run.state = "idle"
    /\ \E value \in {[nan |-> FALSE, n |-> n] : n \in Counts} \cup {[nan |-> TRUE, n |-> 0]} :
          run' = [state |-> "looping", pc |-> 1, value |-> value, vars |-> <<>>,
                  loops |-> <<>>, evaluations |-> 0, tests |-> 0, bodies |-> 0,
                  counter |-> 0]
    /\ RunVarsUnchanged

RepeatStatement ==
    /\ run.state = "looping" /\ run.pc <= Len(source)
    /\ run' = LoopExecute(run, source)
    /\ RunVarsUnchanged

RepeatEnd ==
    /\ run.state = "looping" /\ run.pc > Len(source)
    /\ run' = [run EXCEPT !.state = "ended"]
    /\ RunVarsUnchanged

Three == Constant(Num(Fin(3)))
RepeatScripts ==
    [stack : {<<ControlRepeat(times, do)>> :
                 times \in {Three, Five, VarGet("v1")},
                 do \in {<<>>, <<LooksSetSize(Five)>>,
                         <<ControlRepeat(VarGet("v1"), <<LooksSetSize(Five)>>)>>}},
     isWarp : BOOLEAN, isProcedure : {FALSE}, yields : {TRUE}, warpTimer : BOOLEAN]

InitRepeat ==
    /\ script \in RepeatScripts
    /\ source = <<>>
    /\ variableInputs = <<>>
    /\ frames = <<>>
    /\ currentFrame = 0
    /\ isWarp = script.isWarp
    /\ descendedIntoModulo = FALSE
    /\ localVariables = 0
    /\ setupVariables = <<>>
    /\ setupVariablesPool = 0
    /\ nextBorn = 0
    /\ ctl = <<StackCall(script.stack, FALSE)>>
    /\ ret = NullInput
    /\ status = "running"
    /\ error = ""
    /\ factory = <<>>
    /\ events = {}
    /\ obs = NoObs
    /\ seen = {}
    /\ run = NotRunning
    /\ tLeft = Idle /\ tRight = Idle /\ tOut = Idle
    /\ vheap = <<>> /\ vquery = Idle
    /\ runtime = NoRuntime /\ calls = NoCalls

NextRepeat ==
    \/ DescendStack \/ InputConstant \/ InputVarGet \/ StmtControlRepeat \/ StmtLooksSetSize
    \/ CreateScriptFactory
    \/ RepeatStart \/ RepeatStatement \/ RepeatEnd

SpecRepeat == InitRepeat /\ [][NextRepeat]_vars

(***************************************************************************)
(* Properties of the generator.                                            *)
(***************************************************************************)
\* C1: when compile() returns, a factory that holds a yield or a yield* was
\* assembled for a script marked as yielding (a generator function).
YieldCorrectness == (status = "done" /\ HasYield(factory)) => script.yields

\* what a step may have done after which other threads may have run
ResetPoints ==
    {"stack.enter", "stack.leave", "procedures.call", "event.broadcast",
     "event.broadcastAndWait", "yield"}
\* C2: after entering or leaving a statement list, a procedure call, a broadcast,
\* a broadcast-and-wait or the emission of a yield or yield*, the variable
\* tracker holds no entry.
TrackerEmptyAfterResetPoints ==
    (events \cap ResetPoints # {}) => DOMAIN variableInputs = {}

\* the place of the innermost loop frame
InnermostLoop(fs) ==
    CHOOSE j \in 1..Len(fs) : fs[j].isLoop /\ \A k \in (j + 1)..Len(fs) : ~fs[k].isLoop
\* C3: isLastBlockInLoop() is true exactly when a loop frame is on the frame
\* stack and every frame from the top down to and including the innermost
\* loop frame has isLastBlock true.
LastInLoopAnalysis ==
    isLastBlockInLoop(frames)
    <=> /\ \E j \in 1..Len(frames) : frames[j].isLoop
        /\ \A k \in InnermostLoop(frames)..Len(frames) : frames[k].isLastBlock
\* a compat statement that ends an if that ends a loop body has emitted the continue
LastInLoopWitness ==
    /\ Len(frames) = 3 /\ frames[2].isLoop /\ ~frames[3].isLoop
    /\ isLastBlockInLoop(frames)
    /\ source # <<>>
    /\ source[Len(source)] = "if (hasResumedFromPromise) {hasResumedFromPromise = false;continue;}\n"

\* token i of toks starts a call of the procedure being compiled
SelfCallAt(toks, i) ==
    /\ i < Len(toks) /\ toks[i] = "thread.procedures[\"" /\ toks[i + 1] = "self"
\* C4: in the source of a compiled procedure, every call of the procedure itself
\* that was lowered outside warp mode has a yield before it.
DirectRecursionYields ==
    (status = "done" /\ "recursion" \in seen /\ "warpRecursion" \notin seen)
    => \A i \in 1..Len(source) :
          SelfCallAt(source, i) => \E j \in 1..(i - 1) : source[j] = "yield;\n"

\* C5: a motion.setX, setY or setXY statement emits the line that clears the
\* interpolation data exactly when an op.mod was lowered in its inputs.
InterpolationClearedIffModulo ==
    obs.kind \in MotionKinds => (obs.interp <=> obs.sawMod)

\* C9: the null a failed transformer leaves never aborts the compilation.
TransformerFailureNonFatal ==
    status = "thrown" => error # "TypeError: cannot read properties of null"

\* C10: once a node of an unknown kind has been met, compile() does not return
\* a factory.
UnknownKindFatal == "unknownKind" \in seen => status # "done"

Mentions(src, name) ==
    \E p \in 1..(Len(src) - Len(name) + 1) : SubSeq(src, p, p + Len(name) - 1) = name
\* the places of the factory, before the script function, where a const is declared
SetupConsts ==
    {p \in 1..Len(factory) : factory[p] = "const " /\ \A q \in 1..p : factory[q] # "return "}
\* the line of the factory that starts at p declares binding b
DeclaresAt(p, b) ==
    LET line == <<"const ">> \o b.name \o <<" = ">> \o b.source \o <<";\n">>
    IN  p + Len(line) - 1 <= Len(factory) /\ SubSeq(factory, p, p + Len(line) - 1) = line
\* C12: two setup bindings have the same name exactly when they have the same
\* source, and a binding once made is kept; the factory declares one const per
\* binding, in the order the bindings were first asked for, so that a binding
\* whose source mentions the name of another is declared after that other.
SetupBindingsOnce ==
    /\ [](/\ \A i, j \in 1..Len(setupVariables) :
               i # j => /\ setupVariables[i].source # setupVariables[j].source
                        /\ setupVariables[i].name # setupVariables[j].name
          /\ \A i, j \in 1..Len(setupVariables) :
               Mentions(setupVariables[i].source, setupVariables[j].name) => j < i
          /\ status = "done" =>
               /\ Cardinality(SetupConsts) = Len(setupVariables)
               /\ \A i \in 1..Len(setupVariables) :
                      \E p \in SetupConsts :
                         /\ Cardinality({q \in SetupConsts : q < p}) = i - 1
                         /\ DeclaresAt(p, setupVariables[i]))
    /\ [][/\ Len(setupVariables') >= Len(setupVariables)
          /\ SubSeq(setupVariables', 1, Len(setupVariables)) = setupVariables]_vars
\* a compiled script asked twice for the variable of a sprite: two bindings, the
\* second made from the name of the first and used by both requests
SetupBindingsWitness ==
    /\ status = "done" /\ Len(setupVariables) = 2
    /\ Mentions(setupVariables[2].source, setupVariables[1].name)
    /\ Cardinality({p \in 1..(Len(source) - 1) :
                       SubSeq(source, p, p + 1) = setupVariables[2].name}) = 4

\* C13: whenever a running thread leaves the try statement emitted for
\* control.runAsSprite (its substack completed, an exception was caught, or a
\* return was run inside it), thread.target, thread.spoofing and
\* thread.spoofTarget are what they were when the statement was entered.
RunAsSpriteRestores == run.left.kind = "leave" => run.left.restored

StopCalls == {"runtime.stopAll();\n", "runtime.stopForTarget(target, thread);\n"}
RetireLines == {"retire(); return;\n", "retire(); yield;\n"}
\* C14 as stated: control.stopAll and control.stopOthers each append a call that
\* stops threads and then the retire of the current thread.
StopsThenRetires ==
    obs.kind \in {"control.stopAll", "control.stopOthers"}
    => /\ Len(obs.emitted) = 2
       /\ obs.emitted[1] \in StopCalls
       /\ obs.emitted[2] \in RetireLines
\* C14: control.stopAll appends runtime.stopAll() and then the retire of the
\* current thread; control.stopOthers appends runtime.stopForTarget(target, thread)
\* and nothing else, so the current thread goes on.
StopAllRetiresStopOthersGoesOn ==
    /\ obs.kind = "control.stopAll"
       => /\ Len(obs.emitted) = 2
          /\ obs.emitted[1] = "runtime.stopAll();\n"
          /\ obs.emitted[2] = (IF script.isProcedure THEN "retire(); yield;\n"
                               ELSE "retire(); return;\n")
    /\ obs.kind = "control.stopOthers"
       => obs.emitted = <<"runtime.stopForTarget(target, thread);\n">>
\* control.stopOthers has been lowered in a procedure
StopOthersWitness ==
    /\ obs.kind = "control.stopOthers"
    /\ script.isProcedure
    /\ source[Len(source)] = "runtime.stopForTarget(target, thread);\n"

\* the tokens that open more parentheses than they close, and those that close more
\* than they open, by how many
TwoOpen ==
    {"(Math.log(", "(yield* (function*() {", "yield* waitThreads(startHats("}
OneOpen ==
    {" (", " = Math.max(0, 1000 * ",
     " = startHats(\"event_whenbroadcastreceived\", { BROADCAST_OPTION: ", "(", "(+",
     "(\"\" + ", "(function ", ".lookupVariableByNameAndType(\"", "\"](",
     "\"substack\":(function* () {\n", "compareEqual(", "const target = (", "for (var ",
     "if (", "if (typeof ", "mod(",
     "runtime.ext_scratch3_sensing.getAttributeOf({OBJECT: ", "runtime.getAddonBlock(\"",
     "runtime.getOpcodeFunction(\"", "runtime.getSpriteTargetByName(",
     "startHats(\"event_whenbroadcastreceived\", { BROADCAST_OPTION: ", "target.setSize(",
     "target.setXY(", "toBoolean(", "waitThreads(", "while (", "while (!",
     "while (thread.timer.timeElapsed() < ", "yield* executeInCompatibilityLayer(",
     "yield* executeInCompatibilityLayer({"}
OneClosed ==
    {" || 0)", " });", " });\n", ")", ") {", ") {\n", ");", ");\n", ", null)", "--) {\n",
     ".__evex_returnDataa !== 'undefined') {", ".currentCostume + 1 : 0)",
     ".currentCostume + 1)", ".currentCostume].name : 0)", ".direction : 0)", ".size : 0)",
     ".toLowerCase())", ".value : 0)", ".volume : 0)", ".x : 0)", ".y : 0)", "\" })",
     "\")", "\").callback", "\", \"\", true)", "}),", "}; })"}
TwoClosed ==
    {" }));\n", "))", "})())"}
\* the parentheses the first n tokens leave open
ParenDepth(toks, n) ==
    LET count(S) == Cardinality({i \in 1..n : toks[i] \in S})
    IN  2 * count(TwoOpen) + count(OneOpen) - count(OneClosed) - 2 * count(TwoClosed)
\* no parenthesis is closed before it is opened, and none is left open
Balanced(toks) ==
    /\ \A n \in 1..Len(toks) : ParenDepth(toks, n) >= 0
    /\ ParenDepth(toks, Len(toks)) = 0
\* C15: the source of the typed value descendInput returned has balanced
\* parentheses.
WellFormedFragments == ret.k \in {"typed", "var"} => Balanced(ret.source)

(***************************************************************************)
(* The typed values on their own: op.equals and the predicates of          *)
(* ConstantInput applied to literals, and setInput applied to              *)
(* VariableInput objects.                                                  *)
(***************************************************************************)
\* no compilation is running
NoCompilation ==
    /\ script = [stack |-> <<>>, isWarp |-> FALSE, isProcedure |-> FALSE, yields |-> FALSE,
                 warpTimer |-> FALSE]
    /\ source = <<>>
    /\ variableInputs = <<>>
    /\ frames = <<>>
    /\ currentFrame = 0
    /\ isWarp = FALSE
    /\ descendedIntoModulo = FALSE
    /\ localVariables = 0
    /\ setupVariables = <<>>
    /\ setupVariablesPool = 0
    /\ nextBorn = 0
    /\ ctl = <<>>
    /\ ret = NullInput
    /\ status = "idle"
    /\ error = ""
    /\ factory = <<>>
    /\ events = {}
    /\ obs = NoObs
    /\ seen = {}
    /\ run = NotRunning

LitChars == {"0", "1", "-", " ", "a"}
RECURSIVE LitStrings(_)
LitStrings(n) ==
    IF n = 0 THEN {<<>>}
    ELSE LitStrings(n - 1) \cup {Append(t, ch) : t \in LitStrings(n - 1), ch \in LitChars}

LitNumbers == {Fin(0), Fin(10), Fin(0 - 1), NaN, PosInf, NegInf, NegZero}
OtherInputs ==
    {TypedInput(<<"x">>, t) : t \in Types}
    \cup {VariableInput(<<"b0", ".value">>, "v1", 0),
          setInput(VariableInput(<<"b0", ".value">>, "v1", 0),
                   ConstantInput(Num(Fin(10)), TRUE)),
          setInput(VariableInput(<<"b0", ".value">>, "v1", 0),
                   ConstantInput(Str(<<"a">>), TRUE))}
LeftInputs ==
    {ConstantInput(Str(t), TRUE) : t \in LitStrings(MaxLitLen)
                                        \cup {<<"Infinity">>, <<"-", "Infinity">>}}
    \cup {ConstantInput(Num(n), TRUE) : n \in LitNumbers}
    \cup OtherInputs
RightInputs ==
    {ConstantInput(Str(t), TRUE) : t \in LitStrings(MaxLitLen - 1)}
    \cup {ConstantInput(Num(n), TRUE) : n \in {Fin(0), Fin(10), NaN}}
    \cup {TypedInput(<<"y">>, TYPE_NUMBER), TypedInput(<<"y">>, TYPE_UNKNOWN)}

InitTyped ==
    /\ NoCompilation
    /\ tLeft \in LeftInputs
    /\ tRight \in RightInputs
    /\ tOut = Idle
    /\ vheap = <<>> /\ vquery = Idle
    /\ runtime = NoRuntime /\ calls = NoCalls

Result(op, out) == [op |-> op, out |-> out]

ApplyOpEquals ==
    /\ tOut = Idle /\ tLeft # Idle
    /\ tOut' = Result("op.equals", opEquals(tLeft, tRight))
    /\ UNCHANGED <<tLeft, tRight, compilerVars, heapVars, interpVars>>

ApplyIsAlwaysNumber ==
    /\ tOut = Idle /\ tLeft # Idle
    /\ tOut' = Result("isAlwaysNumber", isAlwaysNumber(tLeft))
    /\ UNCHANGED <<tLeft, tRight, compilerVars, heapVars, interpVars>>

ApplyIsNeverNumber ==
    /\ tOut = Idle /\ tLeft # Idle
    /\ tOut' = Result("isNeverNumber", isNeverNumber(tLeft))
    /\ UNCHANGED <<tLeft, tRight, compilerVars, heapVars, interpVars>>

ApplyAsNumber ==
    /\ tOut = Idle /\ tLeft # Idle
    /\ tOut' = Result("asNumber", asNumber(tLeft))
    /\ UNCHANGED <<tLeft, tRight, compilerVars, heapVars, interpVars>>

NextTyped == ApplyOpEquals \/ ApplyIsAlwaysNumber \/ ApplyIsNeverNumber \/ ApplyAsNumber

SpecTyped == InitTyped /\ [][NextTyped]_vars

\* the VariableInput objects of a compilation, and the values they are set to
VarNames == {"A", "B", "C"}
SetValues ==
    {ConstantInput(Num(Fin(10)), TRUE), ConstantInput(Str(<<"a">>), TRUE),
     TypedInput(<<"x">>, TYPE_NUMBER), TypedInput(<<"x">>, TYPE_STRING), NullInput}

InitVar ==
    /\ NoCompilation
    /\ tLeft = Idle /\ tRight = Idle /\ tOut = Idle
    /\ vheap = [n \in VarNames |-> VariableInput(<<n, ".value">>, n, 0)]
    /\ vquery = Idle
    /\ runtime = NoRuntime /\ calls = NoCalls

\* self.setInput(input), input not a VariableInput
SetInputValue ==
    \E self \in VarNames, input \in SetValues :
        /\ vheap # <<>>
        /\ vheap' = [vheap EXCEPT ![self] = setInput(vheap[self], input)]
        /\ vquery' = [op |-> "setInput", self |-> self, arg |-> "value"]
        /\ UNCHANGED <<compilerVars, typedVars, interpVars>>

\* self.setInput(other), other a VariableInput, self included
SetInputVariable ==
    \E self \in VarNames, other \in VarNames :
        /\ vheap # <<>>
        /\ vheap' = [vheap EXCEPT ![self] = setInput(vheap[self], vheap[other])]
        /\ vquery' = [op |-> "setInput", self |-> self, arg |-> other]
        /\ UNCHANGED <<compilerVars, typedVars, interpVars>>

\* the three predicates evaluated on a VariableInput
QueryVariable ==
    \E self \in VarNames :
        /\ vheap # <<>>
        /\ vquery' = [op |-> "query", self |-> self,
                      isAlwaysNumber |-> isAlwaysNumber(vheap[self]),
                      isAlwaysNumberOrNaN |-> isAlwaysNumberOrNaN(vheap[self]),
                      isNeverNumber |-> isNeverNumber(vheap[self]),
                      delegations |-> Delegations(vheap[self])]
        /\ UNCHANGED <<vheap, compilerVars, typedVars, interpVars>>

NextVar == SetInputValue \/ SetInputVariable \/ QueryVariable

SpecVar == InitVar /\ [][NextVar]_vars

\* what the properties of the typed values speak of
RoundTrips(in) == NumberToString(ToNumber(in.constantValue)) = ValueToString(in.constantValue)
CoercesToNaN(in) == ToNumber(in.constantValue).k = "nan"
BlankText(in) == Trim(ValueToString(in.constantValue)) = <<>>
IsStringComparison(out) == out.source[Len(out.source)] = ".toLowerCase())"
OfTwoConstants ==
    tOut # Idle /\ tOut.op = "op.equals" /\ tLeft.k = "const" /\ tRight.k = "const"
OfConstant == tOut # Idle /\ tOut.op = "isAlwaysNumber" /\ tLeft.k = "const"

\* C6, as stated: op.equals of two constants, one of which has a text that differs
\* from the text of its number, is lowered to a comparison of strings.
EqualsOfNonRoundTrippingIsStringComparison ==
    (OfTwoConstants /\ (~RoundTrips(tLeft) \/ ~RoundTrips(tRight)))
    => IsStringComparison(tOut.out)

\* C6, amended: op.equals of two constants is lowered to a comparison of strings
\* exactly when one of them coerces to NaN; when both coerce to a number and
\* neither is blank text it is lowered to a numeric ===, whether or not their
\* texts round-trip.
EqualsOfConstants ==
    OfTwoConstants
    => /\ IsStringComparison(tOut.out) <=> (CoercesToNaN(tLeft) \/ CoercesToNaN(tRight))
       /\ (~CoercesToNaN(tLeft) /\ ~CoercesToNaN(tRight) /\ ~BlankText(tLeft)
           /\ ~BlankText(tRight))
          => tOut.out.source = <<"(">> \o ConstAsNumber(tLeft) \o <<" === ">>
                               \o ConstAsNumber(tRight) \o <<")">>
\* "010" = "10" has been lowered to (10 === 10)
EqualsOfConstantsWitness ==
    /\ OfTwoConstants
    /\ tLeft.constantValue = Str(<<"0", "1", "0">>)
    /\ tRight.constantValue = Str(<<"1", "0">>)
    /\ tOut.out = TypedInput(<<"(", "1", "0", " === ", "1", "0", ")">>, TYPE_BOOLEAN)

\* C7: whatever setInput calls were made, the value a VariableInput holds is
\* absent or not a VariableInput, and its predicates answer after at most one
\* delegation.
NoVariableInVariable ==
    \A n \in DOMAIN vheap :
        /\ Falsy(vheap[n].value) \/ vheap[n].value.k # "var"
        /\ Delegations(vheap[n]) <= 1
\* A.setInput(A) has been called on an A that holds a value
NoVariableInVariableWitness ==
    /\ vquery = [op |-> "setInput", self |-> "A", arg |-> "A"]
    /\ ~Falsy(vheap["A"].value)

\* C8, as stated: isAlwaysNumber of a constant is true exactly when its number is
\* finite and not NaN and, when it is zero, its trimmed text is not empty.
AlwaysNumberIffFinite ==
    OfConstant
    => (tOut.out <=> /\ ToNumber(tLeft.constantValue).k \notin {"nan", "inf", "ninf"}
                     /\ IsZero(ToNumber(tLeft.constantValue)) => ~BlankText(tLeft))

\* C8, amended: isAlwaysNumber of a constant is true exactly when its number is
\* not NaN (the infinities included) and, when it is zero, its trimmed text is
\* not empty.
AlwaysNumberIffNotNaN ==
    OfConstant
    => (tOut.out <=> /\ ToNumber(tLeft.constantValue).k # "nan"
                     /\ IsZero(ToNumber(tLeft.constantValue)) => ~BlankText(tLeft))
\* isAlwaysNumber has answered true for the literal Infinity
AlwaysNumberWitness ==
    /\ OfConstant
    /\ tLeft.constantValue = Str(<<"Infinity">>)
    /\ tOut.out = TRUE


(***************************************************************************)
(* The interpolator.  Lengths are counted in twentieths of a unit, so that *)
(* the midpoint of two positions that are multiples of a tenth is a whole  *)
(* number.  A direction is a number of degrees or the average of two such  *)
(* numbers, which interpolateTargets computes with atan2.                  *)
(***************************************************************************)
MaxMoves == 2

Tenth == 2
Ten == 200
Fifty == 1000
GhostLimit == 25
ScaleLimit == 100

Abs(n) == IF n < 0 THEN 0 - n ELSE n
Min(a, b) == IF a < b THEN a ELSE b
\* Math.sign
Sign(n) == IF n > 0 THEN 1 ELSE IF n < 0 THEN 0 - 1 ELSE 0
Degrees(n) == [degrees |-> n]
AverageDirection(current, starting) == [average |-> <<current.degrees, starting.degrees>>]

\* target._getRenderedDirectionAndScale()
getRenderedDirectionAndScale(target) == [direction |-> target.direction, scale |-> target.scale]

UpdateDrawablePosition(id, position) ==
    [fn |-> "updateDrawablePosition", id |-> id, position |-> position]
UpdateDrawableDirectionScale(id, direction, scale) ==
    [fn |-> "updateDrawableDirectionScale", id |-> id, direction |-> direction,
     scale |-> scale]
UpdateDrawableEffect(id, effect, value) ==
    [fn |-> "updateDrawableEffect", id |-> id, effect |-> effect, value |-> value]

\* the renderer carries out a call
RenderCall(drawables, c) ==
    CASE c.fn = "updateDrawablePosition" -> [drawables EXCEPT ![c.id].position = c.position]
      [] c.fn = "updateDrawableDirectionScale" ->
            [drawables EXCEPT ![c.id].direction = c.direction, ![c.id].scale = c.scale]
      [] c.fn = "updateDrawableEffect" -> [drawables EXCEPT ![c.id].ghost = c.value]
RECURSIVE Render(_, _)
Render(drawables, cs) ==
    IF cs = <<>> THEN drawables ELSE Render(RenderCall(drawables, Head(cs)), Tail(cs))

\* restoreTargets that leaves the ghost effect as the interpolation drew it
restoreTargetNoEffect(target, id) ==
    IF Falsy(target.interpolationData) THEN <<>>
    ELSE <<UpdateDrawablePosition(id, <<target.x, target.y>>),
           UpdateDrawableDirectionScale(id, target.direction, target.scale)>>

\* restoreTargets, for one target
restoreTarget(target, id) ==
    IF Falsy(target.interpolationData) THEN <<>>
    ELSE LET targetDirectionAndScale == getRenderedDirectionAndScale(target)
         IN  <<UpdateDrawablePosition(id, <<target.x, target.y>>),
               UpdateDrawableDirectionScale(id, targetDirectionAndScale.direction,
                                            targetDirectionAndScale.scale),
               UpdateDrawableEffect(id, "ghost", target.ghost)>>

\* setupTargets, for one target
setupTarget(target) ==
    IF target.visible /\ ~target.isStage
    THEN LET directionAndScale == getRenderedDirectionAndScale(target)
         IN  [target EXCEPT !.interpolationData =
                 [k |-> "data", x |-> target.x, y |-> target.y,
                  direction |-> directionAndScale.direction,
                  scale |-> directionAndScale.scale, costume |-> target.currentCostume,
                  ghost |-> target.ghost]]
    ELSE [target EXCEPT !.interpolationData = NullInput]

\* the test of the tolerances with one distance enough
WithinEitherTolerance(xDistance, yDistance, bounds) ==
    xDistance < Min(Fifty, Ten + bounds.width) \/ yDistance < Min(Fifty, Ten + bounds.height)
\* both distances are below their tolerance
WithinTolerance(xDistance, yDistance, bounds) ==
    LET xTolerance == Min(Fifty, Ten + bounds.width)
        yTolerance == Min(Fifty, Ten + bounds.height)
    IN  xDistance < xTolerance /\ yDistance < yTolerance

\* the test of the signs on the first axis only
SameSignsFirstAxis(scale, startingScale) == Sign(scale[1]) = Sign(startingScale[1])
\* the signs of the two scales agree on both axes
SameSigns(scale, startingScale) ==
    Sign(scale[1]) = Sign(startingScale[1]) /\ Sign(scale[2]) = Sign(startingScale[2])

\* interpolateTargets, for one target: the calls made to the renderer
interpolatePosition(target, id, drawable) ==
    LET interpolationData == target.interpolationData
        xDistance == Abs(target.x - interpolationData.x)
        yDistance == Abs(target.y - interpolationData.y)
    IN  IF (xDistance > Tenth \/ yDistance > Tenth)
           /\ WithinTolerance(xDistance, yDistance, drawable.aabb)
        THEN <<UpdateDrawablePosition(id, <<(interpolationData.x + target.x) \div 2,
                                            (interpolationData.y + target.y) \div 2>>)>>
        ELSE <<>>
interpolateEffect(target, id) ==
    LET ghostChange == Abs(target.ghost - target.interpolationData.ghost)
    IN  IF ghostChange > 0 /\ ghostChange < GhostLimit
        THEN <<UpdateDrawableEffect(id, "ghost",
                                    (target.ghost + target.interpolationData.ghost) \div 2)>>
        ELSE <<>>
interpolateDirectionScale(target, id) ==
    LET interpolationData == target.interpolationData
        costumeDidChange == interpolationData.costume # target.currentCostume
        targetDirectionAndScale == getRenderedDirectionAndScale(target)
        turned == targetDirectionAndScale.direction # interpolationData.direction
        direction == IF turned
                     THEN AverageDirection(targetDirectionAndScale.direction,
                                           interpolationData.direction)
                     ELSE targetDirectionAndScale.direction
        startingScale == interpolationData.scale
        current == targetDirectionAndScale.scale
        blended == /\ current[1] # startingScale[1] \/ current[2] # startingScale[2]
                   /\ SameSigns(current, startingScale)
                   /\ Abs(current[1] - startingScale[1]) < ScaleLimit
        scale == IF blended
                 THEN <<(current[1] + startingScale[1]) \div 2,
                        (current[2] + startingScale[2]) \div 2>>
                 ELSE current
    IN  IF ~costumeDidChange /\ (turned \/ blended)
        THEN <<UpdateDrawableDirectionScale(id, direction, scale)>>
        ELSE <<>>
interpolateTarget(target, id, drawable) ==
    IF Falsy(target.interpolationData) THEN <<>>
    ELSE interpolatePosition(target, id, drawable) \o interpolateEffect(target, id)
         \o interpolateDirectionScale(target, id)

\* the calls made for the targets from i on
RECURSIVE CallsFrom(_, _)
CallsFrom(i, by) ==
    IF i > Len(runtime.targets) THEN <<>>
    ELSE (IF by = "restoreTargets" THEN restoreTarget(runtime.targets[i], i)
          ELSE interpolateTarget(runtime.targets[i], i, runtime.renderer.drawables[i]))
         \o CallsFrom(i + 1, by)

SetupTargets ==
    /\ runtime # NoRuntime
    /\ runtime' = [runtime EXCEPT !.targets = [i \in DOMAIN @ |-> setupTarget(@[i])]]
    /\ calls' = [NoCalls EXCEPT !.by = "setupTargets"]
    /\ UNCHANGED <<compilerVars, typedVars, heapVars>>

InterpolateTargets ==
    /\ runtime # NoRuntime
    /\ LET made == IF Falsy(runtime.renderer) THEN <<>> ELSE CallsFrom(1, "interpolateTargets")
       IN  /\ calls' = [by |-> "interpolateTargets", made |-> made, threw |-> FALSE]
           /\ runtime' = IF Falsy(runtime.renderer) THEN runtime
                         ELSE [runtime EXCEPT !.renderer.drawables = Render(@, made)]
    /\ UNCHANGED <<compilerVars, typedVars, heapVars>>

\* restoreTargets: with no renderer, the first target that has a snapshot is the end
RestoreTargets ==
    /\ runtime # NoRuntime
    /\ IF Falsy(runtime.renderer)
       THEN /\ calls' = [by |-> "restoreTargets", made |-> <<>>,
                         threw |-> \E i \in DOMAIN runtime.targets :
                                      ~Falsy(runtime.targets[i].interpolationData)]
            /\ runtime' = runtime
       ELSE LET made == CallsFrom(1, "restoreTargets")
            IN  /\ calls' = [by |-> "restoreTargets", made |-> made, threw |-> FALSE]
                /\ runtime' = [runtime EXCEPT !.renderer.drawables = Render(@, made)]
    /\ UNCHANGED <<compilerVars, typedVars, heapVars>>

\* what a thread changes of a sprite between two calls of the interpolator
Positions == {0, 2, 4, 400, 1200}
Scales == {<<100, 100>>, <<50, 100>>, <<0 - 100, 100>>, <<100, 0 - 100>>, <<0, 100>>,
           <<300, 300>>, <<100, 300>>}
Changes ==
    {[x |-> x, y |-> y] : x \in Positions, y \in {0, 400}}
    \cup {[scale |-> s] : s \in Scales}
    \cup {[direction |-> Degrees(d)] : d \in {0, 90, 180}}
    \cup {[ghost |-> g] : g \in {0, 10, 50}}
    \cup {[currentCostume |-> c] : c \in {0, 1}}
    \cup {[visible |-> v] : v \in BOOLEAN}
    \cup {[interpolationData |-> NullInput]}
ThreadStep ==
    /\ runtime # NoRuntime /\ runtime.moves < MaxMoves
    /\ \E i \in DOMAIN runtime.targets, change \in Changes :
          /\ ~runtime.targets[i].isStage
          /\ \E f \in DOMAIN change : runtime.targets[i][f] # change[f]
          /\ runtime' = [runtime EXCEPT
                            !.targets[i] = [f \in DOMAIN @ |-> IF f \in DOMAIN change
                                                               THEN change[f] ELSE @[f]],
                            !.moves = @ + 1]
    /\ calls' = [NoCalls EXCEPT !.by = "thread"]
    /\ UNCHANGED <<compilerVars, typedVars, heapVars>>

Target(isStage) ==
    [isStage |-> isStage, visible |-> TRUE, x |-> 0, y |-> 0, direction |-> Degrees(90),
     scale |-> <<100, 100>>, currentCostume |-> 0, ghost |-> 0,
     interpolationData |-> Undefined]
Drawable(width, height) ==
    [position |-> <<0, 0>>, direction |-> Degrees(90), scale |-> <<100, 100>>, ghost |-> 0,
     aabb |-> [width |-> width, height |-> height]]
Runtimes ==
    {[targets |-> <<Target(TRUE), Target(FALSE)>>,
      renderer |-> r, moves |-> 0] :
        r \in {NullInput}
              \cup {[k |-> "renderer",
                      drawables |-> <<Drawable(9600, 7200), Drawable(w, h)>>] :
                        w \in {0, 200, 2000}, h \in {200, 2000}}}

InitInterp ==
    /\ NoCompilation
    /\ tLeft = Idle /\ tRight = Idle /\ tOut = Idle
    /\ vheap = <<>> /\ vquery = Idle
    /\ runtime \in Runtimes
    /\ calls = NoCalls

NextInterp == SetupTargets \/ InterpolateTargets \/ RestoreTargets \/ ThreadStep

SpecInterp == InitInterp /\ [][NextInterp]_vars

\* the calls of the last function of the interpolator that update fn of drawable i
Sent(fn, i) ==
    {n \in DOMAIN calls.made : calls.made[n].fn = fn /\ calls.made[n].id = i}
\* target i has a snapshot whose sign differs from the current scale on some axis
SignDiffers(i) ==
    LET target == runtime.targets[i]
    IN  /\ ~Falsy(target.interpolationData)
        /\ \/ Sign(target.scale[1]) # Sign(target.interpolationData.scale[1])
           \/ Sign(target.scale[2]) # Sign(target.interpolationData.scale[2])

\* C16: after interpolateTargets, for a target whose costume is the one of its
\* snapshot and whose scale differs in sign from the snapshot on either axis,
\* every scale passed to the renderer is the current scale of the target.
NoScaleInterpolationAcrossSigns ==
    calls.by = "interpolateTargets"
    => \A i \in DOMAIN runtime.targets :
          (SignDiffers(i)
           /\ runtime.targets[i].interpolationData.costume = runtime.targets[i].currentCostume)
          => \A n \in Sent("updateDrawableDirectionScale", i) :
                calls.made[n].scale = runtime.targets[i].scale
\* a sprite that was flipped and turned since its snapshot had its direction updated
NoScaleInterpolationWitness ==
    /\ calls.by = "interpolateTargets"
    /\ \E i \in DOMAIN runtime.targets :
          /\ SignDiffers(i)
          /\ runtime.targets[i].interpolationData.costume = runtime.targets[i].currentCostume
          /\ Sent("updateDrawableDirectionScale", i) # {}

\* the distances of target i from its snapshot, and the tolerances of its drawable
XDistance(i) == Abs(runtime.targets[i].x - runtime.targets[i].interpolationData.x)
YDistance(i) == Abs(runtime.targets[i].y - runtime.targets[i].interpolationData.y)
XTolerance(i) == Min(Fifty, Ten + runtime.renderer.drawables[i].aabb.width)
YTolerance(i) == Min(Fifty, Ten + runtime.renderer.drawables[i].aabb.height)

\* C17: after interpolateTargets, a position was sent to the renderer for a
\* target with a snapshot only if a distance exceeds 0.1 and both distances are
\* below their tolerances, and it is the midpoint; if either distance exceeds
\* its tolerance no position was sent.
PositionTolerance ==
    (calls.by = "interpolateTargets" /\ ~Falsy(runtime.renderer))
    => \A i \in DOMAIN runtime.targets :
          ~Falsy(runtime.targets[i].interpolationData)
          => /\ \A n \in Sent("updateDrawablePosition", i) :
                   /\ XDistance(i) > Tenth \/ YDistance(i) > Tenth
                   /\ XDistance(i) < XTolerance(i) /\ YDistance(i) < YTolerance(i)
                   /\ 2 * calls.made[n].position[1]
                        = runtime.targets[i].x + runtime.targets[i].interpolationData.x
                   /\ 2 * calls.made[n].position[2]
                        = runtime.targets[i].y + runtime.targets[i].interpolationData.y
             /\ (XDistance(i) > XTolerance(i) \/ YDistance(i) > YTolerance(i))
                => Sent("updateDrawablePosition", i) = {}
\* a sprite that moved 20 units along x since its snapshot was drawn half way
PositionToleranceWitness ==
    /\ calls.by = "interpolateTargets"
    /\ \E i \in DOMAIN runtime.targets :
          /\ ~Falsy(runtime.targets[i].interpolationData)
          /\ XDistance(i) = 400
          /\ Sent("updateDrawablePosition", i) # {}

\* the lists of statements whose lowering is under way, as positions of the call stack
OpenStacks == {k \in 1..(Len(ctl) - 1) : ctl[k].op = "stack" /\ ctl[k].pc = 1}
\* currentFrame is the top of the frame stack
CurrentFrameIsTop == currentFrame = Len(frames)
\* a descendStack that returns leaves the frames it found
DescentRestoresFrames ==
    obs.kind = "descendStack"
    => obs.frames = obs.before.frames /\ obs.currentFrame = obs.before.currentFrame
\* the frame of a list under way says whether its statement is the last one
LastBlockIsFinalIndex ==
    \A k \in OpenStacks :
       /\ ctl[k].fi \in 1..Len(frames)
       /\ frames[ctl[k].fi].isLastBlock <=> (ctl[k].i = Len(ctl[k].node.stks[1]))

\* C18: a descendStack that returns normally leaves the frame stack and
\* currentFrame as they were before the call; currentFrame is the top of the
\* frame stack; the frame stack is empty after compile(); and while statement
\* i of a list is lowered the frame of the list has isLastBlock true exactly
\* when i is the last index.
StackDescentContract ==
    /\ CurrentFrameIsTop
    /\ DescentRestoresFrames
    /\ status = "done" => frames = <<>>
    /\ LastBlockIsFinalIndex

\* the frames at which a scan from the innermost frame can end
ScanStops(fs) == {j \in 1..Len(fs) : fs[j].isLoop \/ ~fs[j].isLastBlock}
\* the innermost frame whose isLastBlock is false
FirstNotLast(fs) ==
    CHOOSE j \in 1..Len(fs) : ~fs[j].isLastBlock /\ \A k \in (j + 1)..Len(fs) : fs[k].isLastBlock

\* C19 as stated: isLastBlockInLoop() is true exactly when the innermost frame
\* whose isLastBlock is false is a loop frame.
LastInLoopIsFirstNotLastLoop ==
    isLastBlockInLoop(frames)
    <=> /\ \E j \in 1..Len(frames) : ~frames[j].isLastBlock
        /\ frames[FirstNotLast(frames)].isLoop
\* C19: isLastBlockInLoop() is true exactly when the scan from the innermost
\* frame meets a frame that is a loop frame or has isLastBlock false, and the
\* first such frame has isLastBlock true (it is then a loop frame).
LastInLoopScan ==
    isLastBlockInLoop(frames)
    <=> /\ ScanStops(frames) # {}
        /\ frames[CHOOSE j \in ScanStops(frames) :
                      \A k \in ScanStops(frames) : k <= j].isLastBlock
\* a compatibility call that is not the last statement of a loop body was lowered
\* without the continue
LastInLoopScanWitness ==
    /\ Len(frames) = 2 /\ frames[2].isLoop /\ ~frames[2].isLastBlock
    /\ ~isLastBlockInLoop(frames)
    /\ "yield" \in events
    /\ source # <<>>
    /\ source[Len(source)] = ";\n"

\* a Constant whose coercion to a number is not zero and is written as the literal is
SafeConstant(in) ==
    /\ in.k = "const"
    /\ ~IsZero(ToNumber(in.constantValue))
    /\ NumberToString(ToNumber(in.constantValue)) = ValueToString(in.constantValue)

\* C20: op.equals emits the comparison of lowercased strings if either operand
\* is never a number; otherwise the numeric === if both are always numbers;
\* otherwise the numeric === if one operand is a safe Constant; otherwise the
\* call of compareEqual.
EqualityLoweringDecision ==
    (tOut # Idle /\ tOut.op = "op.equals")
    => tOut.out =
          IF isNeverNumber(tLeft) \/ isNeverNumber(tRight) THEN EqualsAsStrings(tLeft, tRight)
          ELSE IF isAlwaysNumber(tLeft) /\ isAlwaysNumber(tRight)
               THEN EqualsAsNumbers(tLeft, tRight)
          ELSE IF SafeConstant(tLeft) \/ SafeConstant(tRight)
               THEN EqualsAsNumbers(tLeft, tRight)
          ELSE EqualsByHelper(tLeft, tRight)
\* the constant 10 was compared with an operand of unknown type by the numeric ===
EqualityLoweringWitness ==
    /\ tOut # Idle /\ tOut.op = "op.equals"
    /\ tLeft = ConstantInput(Num(Fin(10)), TRUE)
    /\ tRight = TypedInput(<<"y">>, TYPE_UNKNOWN)
    /\ tOut.out = EqualsAsNumbers(tLeft, tRight)

\* what control.wait emitted from the redraw request on
FromRedraw(e) ==
    LET r == CHOOSE i \in 1..Len(e) : e[i] = "runtime.requestRedraw();\n"
    IN  SubSeq(e, r, Len(e))
\* the spin loop of control.wait and the reset of the timer
WaitLoop(duration, isWarpNow) ==
    <<"while (thread.timer.timeElapsed() < ">> \o duration \o <<") {\n">>
    \o <<IF isWarpNow THEN "if (isStuck()) yield;\n" ELSE "yield;\n">>
    \o <<"}\n", "thread.timer = null;\n">>
\* the text of a control.wait starts with the timer and has one redraw request
WaitStarts ==
    /\ obs.emitted[1] = "thread.timer = timer();\n"
    /\ Cardinality({i \in 1..Len(obs.emitted) :
                       obs.emitted[i] = "runtime.requestRedraw();\n"}) = 1

YieldHelpers == {"yieldNotWarp", "yieldStuckOrNotWarp", "yieldLoop"}
\* what the generator has emitted and tracked when the helper is called
EmittedBefore == {<<>>, <<"runtime.requestRedraw();\n">>, <<"while (true) {\n">>}
TrackedBefore == {<<>>, "v1" :> VariableInput(<<"b", "0", ".value">>, "v1", 0)}

InitYield ==
    /\ NoCompilation
    /\ tLeft = Idle /\ tRight = Idle /\ tOut = Idle
    /\ vheap = <<>> /\ vquery = Idle
    /\ runtime = NoRuntime /\ calls = NoCalls

\* new JSGenerator(script, ...), then the lowering up to the call of a helper:
\* isWarp is the flag of the script unless a control.allAtOnce has forced it
StartYield ==
    /\ status = "idle"
    /\ \E y \in BOOLEAN, t \in BOOLEAN, w \in BOOLEAN, forced \in BOOLEAN,
          e \in EmittedBefore, v \in TrackedBefore :
          /\ script' = [stack |-> <<>>, isWarp |-> w, isProcedure |-> FALSE, yields |-> y,
                        warpTimer |-> t]
          /\ isWarp' = (w \/ forced)
          /\ source' = e
          /\ variableInputs' = v
    /\ status' = "running"
    /\ UNCHANGED <<frames, currentFrame, descendedIntoModulo, localVariables, setupVariables,
                   setupVariablesPool, nextBorn, ctl, ret, error, factory, events, obs, seen,
                   run, typedVars, heapVars, interpVars>>

YieldHelperFree == status = "running" /\ ctl = <<>> /\ seen \cap YieldHelpers = {}
YieldNotWarp == YieldHelperFree /\ Apply(yieldNotWarp(remember(Cur, "yieldNotWarp")))
YieldStuckOrNotWarp ==
    YieldHelperFree /\ Apply(yieldStuckOrNotWarp(remember(Cur, "yieldStuckOrNotWarp")))
YieldLoop == YieldHelperFree /\ Apply(yieldLoop(remember(Cur, "yieldLoop")))

NextYield == StartYield \/ YieldNotWarp \/ YieldStuckOrNotWarp \/ YieldLoop
SpecYield == InitYield /\ [][NextYield]_vars

\* what the rules let a helper append
YieldRule(helper, warp, timer) ==
    IF ~warp THEN <<"yield;\n">>
    ELSE IF helper = "yieldStuckOrNotWarp" \/ (helper = "yieldLoop" /\ timer)
    THEN <<"if (isStuck()) yield;\n">>
    ELSE <<>>

\* C22: in warp mode yieldNotWarp appends nothing, yieldStuckOrNotWarp appends
\* the yield guarded by isStuck(), and yieldLoop appends what
\* yieldStuckOrNotWarp appends if the script has a warp timer and what
\* yieldNotWarp appends otherwise; outside warp mode each appends a plain yield.
WarpYieldRules ==
    [][\A h \in YieldHelpers :
          (h \in seen' /\ h \notin seen)
          => source' = source \o YieldRule(h, isWarp, script.warpTimer)]_vars
\* yieldLoop was called in warp mode for a script that has a warp timer
WarpYieldWitness ==
    /\ "yieldLoop" \in seen
    /\ isWarp /\ script.warpTimer /\ status = "running"
    /\ source # <<>>
    /\ source[Len(source)] = "if (isStuck()) yield;\n"

\* the control.allAtOnce statements whose nested stack is being lowered
OpenAllAtOnce ==
    {k \in 1..(Len(ctl) - 1) :
        ctl[k].op = "stmt" /\ ctl[k].node.kind = "control.allAtOnce" /\ ctl[k].pc = 1}
\* the control.allAtOnce statements that have set isWarp and not yet set it back
StartedAllAtOnce ==
    {k \in 1..Len(ctl) :
        ctl[k].op = "stmt" /\ ctl[k].node.kind = "control.allAtOnce" /\ ctl[k].pc = 1}
\* isWarp is true in the nested stack and set back when the statement ends
AllAtOnceWarpInside ==
    /\ OpenAllAtOnce # {} => isWarp
    /\ obs.kind = "control.allAtOnce" => isWarp = obs.ooldWarp

\* C23: while the nested stack of a control.allAtOnce is lowered isWarp is
\* true; when the statement has been lowered isWarp is what it was before; and
\* outside every such nested stack isWarp is the flag of the script, so that
\* the statements of a non-warp script that follow the block yield as in a
\* non-warp script.
AllAtOnceWarpOnlyInside ==
    /\ AllAtOnceWarpInside
    /\ (status = "running" /\ StartedAllAtOnce = {}) => isWarp = script.isWarp

\* the count the outermost loop of the script was started with, in halves
RepeatCount ==
    LET times == script.stack[1].ins[1]
    IN  IF times.kind = "var.get" THEN (IF run.value.nan THEN 0 ELSE run.value.n)
        ELSE 2 * times.value.num.v
\* n halves rounded half up to a whole number
RoundHalfUp(n) == (n + 1) \div 2

\* C24: when the thread has run the emitted loop of a control.repeat, the count
\* was evaluated once, the body ran round-half-up(N) times for N >= 0 and not
\* at all for N < 0.5, and for N = 3 the loop ended at its 4th test with the
\* counter at 0.
RepeatRunsRoundedCount ==
    run.state = "ended"
    => /\ run.evaluations = 1
       /\ RepeatCount >= 0 => run.bodies = RoundHalfUp(RepeatCount)
       /\ RepeatCount < 1 => run.bodies = 0
       /\ RepeatCount = 6 => run.bodies = 3 /\ run.tests = 4 /\ run.counter = 0
\* a loop started with the count 2.5 has run its body three times
RepeatHalfWitness ==
    /\ run.state = "ended"
    /\ script.stack[1].ins[1].kind = "var.get"
    /\ run.value = [nan |-> FALSE, n |-> 5]
    /\ run.bodies = 3

\* the drawable of target i shows the position, direction, scale and ghost of the target
DrawnAsIs(i) ==
    LET target == runtime.targets[i]
        drawable == runtime.renderer.drawables[i]
    IN  /\ drawable.position = <<target.x, target.y>>
        /\ drawable.direction = getRenderedDirectionAndScale(target).direction
        /\ drawable.scale = getRenderedDirectionAndScale(target).scale
        /\ drawable.ghost = target.ghost
\* after restoreTargets every target that has a snapshot is drawn as it is
RestoredAsIs ==
    (calls.by = "restoreTargets" /\ ~Falsy(runtime.renderer))
    => \A i \in DOMAIN runtime.targets :
          ~Falsy(runtime.targets[i].interpolationData) => DrawnAsIs(i)

\* C25: interpolateTargets and restoreTargets leave every target as it is, its
\* snapshot included, and after restoreTargets the drawable of every target
\* that has a snapshot shows the position, direction, scale and ghost of the
\* target, whatever interpolateTargets drew before.
InterpolationLeavesTargets ==
    /\ []RestoredAsIs
    /\ [][calls'.by \in {"interpolateTargets", "restoreTargets"}
          => runtime'.targets = runtime.targets]_vars
\* a sprite that moved and faded since its snapshot is drawn where it is
RestoredWitness ==
    /\ calls.by = "restoreTargets"
    /\ ~Falsy(runtime.renderer)
    /\ \E i \in DOMAIN runtime.targets :
          /\ ~Falsy(runtime.targets[i].interpolationData)
          /\ runtime.targets[i].x = 400 /\ runtime.targets[i].interpolationData.x = 0
          /\ runtime.targets[i].ghost = 10 /\ runtime.targets[i].interpolationData.ghost = 0
          /\ DrawnAsIs(i)

\* C26: no continue is emitted for a compatibility call where no loop encloses
\* it within the function it is emitted in.
ContinueInsideLoop == "continueOutsideLoop" \notin seen

\* C27: descendStackedBlock and descendInput return with the frame stack as deep
\* as they found it and with the current frame they found, also when the hook
\* of an extension has caught what a nested descendStack threw.
DescentsKeepFrames == "framesChanged" \notin seen

\* C28: no case of the switch of descendInput has returned anything but an input.
BuiltInInputsAreTyped == "returnedNoInput" \notin seen

\* C29: the conditions of control.while, control.waitUntil and
\* control.waitOrUntil and the count of control.for are lowered while the
\* variable tracker holds no entry.
ReevaluatedLoweredUntracked == "trackedCondition" \notin seen

\* C30: when generateCompatibilityLayerCall has lowered a substack input, the
\* statements lowered for it are the body of the generator function literal
\* passed as that input, and the source of the function being emitted has
\* received none of them.
SubstackInsideFunctionLiteral ==
    obs.kind = "compat.substack"
    => /\ obs.literal = obs.lowered
       /\ ~obs.appended

====
